---------------------------- MODULE Spec2Model ----------------------------
(***************************************************************************)
(* Model of the robot drive firmware (ESP32, Bluepad32): bluetoothTask     *)
(* (producer) and drivingTask (consumer) sharing the volatile command      *)
(* variables, the mecanum mixer with its single-precision scaling, the     *)
(* shift-register direction byte and the servo / electromagnet logic.      *)
(***************************************************************************)
EXTENDS Integers, Sequences, FiniteSets, TLC

(***************************************************************************)
(* Program constants                                                       *)
(***************************************************************************)
OFF == 0
FWD == 1
REV == 2

NORMAL_SPEED == 220
PRECISION_SPEED == 152

EMAG_PWM_DUTY == 165

DEADZONE == 200
analogThreshold == 100
servo2Step == 5

M1_REV == FALSE
M2_REV == TRUE
M3_REV == FALSE
M4_REV == FALSE

PRECISION_BIT == 32
DPAD_INC == 1
DPAD_DEC == 2
DPAD_ENGAGE == 4
DPAD_DISENGAGE == 8

LOW == 0
HIGH == 1

(***************************************************************************)
(* Bounds of the model                                                     *)
(***************************************************************************)
\* slots of myControllers (BP32_MAX_GAMEPADS of the Bluepad32 library)
MaxGamepads == 2
\* stride of the regular part of the axis grid used for the mixer
AxisStride == 64
\* longest run of consecutive servo-2 ticks that is counted
MaxRun == 20

NULL == 0
Slots == 1..MaxGamepads
\* controllers the Bluetooth stack can hold at a time
Pads == 1..MaxGamepads

(***************************************************************************)
(* Integer helpers                                                         *)
(***************************************************************************)
Abs(x) == IF x < 0 THEN -x ELSE x
Max2(a, b) == IF a >= b THEN a ELSE b
Min2(a, b) == IF a <= b THEN a ELSE b
Sign(x) == IF x > 0 THEN 1 ELSE IF x < 0 THEN -1 ELSE 0

RECURSIVE Pow2(_)
Pow2(n) == IF n = 0 THEN 1 ELSE 2 * Pow2(n - 1)

RECURSIVE BitLen(_)
BitLen(x) == IF x = 0 THEN 0 ELSE 1 + BitLen(x \div 2)

(***************************************************************************)
(* uint8_t bit operations                                                  *)
(***************************************************************************)
Bit(b, i) == (b \div Pow2(i)) % 2
Pack8(f) == f[0] + 2*f[1] + 4*f[2] + 8*f[3] + 16*f[4] + 32*f[5] + 64*f[6] + 128*f[7]
\* (the operands are bound to their values once, then combined bit by bit)
And8(a, b) ==
    CHOOSE r \in {Pack8([i \in 0..7 |-> Bit(x, i) * Bit(y, i)]) : x \in {a}, y \in {b}} : TRUE
Or8(a, b) ==
    CHOOSE r \in {Pack8([i \in 0..7 |-> Max2(Bit(x, i), Bit(y, i))]) : x \in {a}, y \in {b}} : TRUE
Not8(a) == 255 - (a % 256)
Shl8(a, n) == (a * Pow2(n)) % 256
U8(x) == x % 256

(***************************************************************************)
(* IEEE-754 single precision, as far as the mixer uses it.  A positive     *)
(* float is [m, sh] with value m / 2^sh and m a 24-bit significand.        *)
(***************************************************************************)
F32One == [m |-> Pow2(23), sh |-> 23]

RECURSIVE LeadShift(_, _, _)
LeadShift(a, b, k) == IF a * Pow2(k + 1) >= b THEN k ELSE LeadShift(a, b, k + 1)

RECURSIVE LongDiv(_, _, _, _)
LongDiv(r, b, n, q) ==
    IF n = 0 THEN [q |-> q, r |-> r]
    ELSE IF 2 * r >= b THEN LongDiv(2 * r - b, b, n - 1, 2 * q + 1)
         ELSE LongDiv(2 * r, b, n - 1, 2 * q)

\* a / b for integers 0 < a < b, rounded to nearest-even single precision
F32Div(a, b) ==
    LET n == 24 + LeadShift(a, b, 0)
        d == LongDiv(a, b, n, 0)
        up == (2 * d.r > b) \/ (2 * d.r = b /\ d.q % 2 = 1)
    IN  [m |-> IF up THEN d.q + 1 ELSE d.q, sh |-> n]

\* (int)(raw * f): the int is converted exactly, the product is rounded to
\* nearest-even single precision, the conversion back truncates toward zero
F32MulTrunc(raw, f) ==
    IF raw = 0 THEN 0
    ELSE LET a == Abs(raw)
             hi0 == a * (f.m \div 4096)
             lo0 == a * (f.m % 4096)
             hi == hi0 + (lo0 \div 4096)
             lo == lo0 % 4096
             d == BitLen(hi) - 12
             keep == hi * Pow2(12 - d) + (lo \div Pow2(d))
             rem == lo % Pow2(d)
             up == d > 0 /\ (2 * rem > Pow2(d) \/ (2 * rem = Pow2(d) /\ keep % 2 = 1))
             sig == IF up THEN keep + 1 ELSE keep
         IN  Sign(raw) * (sig \div Pow2(f.sh - d))

(***************************************************************************)
(* Motor mixing of bluetoothTask (local computation of one snapshot)       *)
(***************************************************************************)
\* variant: the threshold value itself is filtered too
DeadZoneInclusive(v) == IF Abs(v) <= DEADZONE THEN 0 ELSE v

DeadZone(v) == IF Abs(v) < DEADZONE THEN 0 ELSE v

\* variant: the precision button is ignored
DesiredMaxIgnoresMode(precisionMode) == NORMAL_SPEED

\* variant: the two caps are swapped
DesiredMaxSwapped(precisionMode) == IF precisionMode THEN NORMAL_SPEED ELSE PRECISION_SPEED

DesiredMax(precisionMode) == IF precisionMode THEN PRECISION_SPEED ELSE NORMAL_SPEED

MaxVal(rawFL, rawFR, rawBL, rawBR) ==
    Max2(Max2(Abs(rawFL), Abs(rawFR)), Max2(Abs(rawBL), Abs(rawBR)))

\* variant: the commands are not scaled down to the cap
FactorNoScaling(maxVal, desiredMax) == F32One

\* lines 368-374
Factor(maxVal, desiredMax) ==
    IF maxVal > desiredMax THEN F32Div(desiredMax, maxVal) ELSE F32One

BtIdle ==
    [raw_lx |-> 0, raw_ly |-> 0, raw_rx |-> 0, lx |-> 0, ly |-> 0, rx |-> 0,
     rawFL |-> 0, rawFR |-> 0, rawBL |-> 0, rawBR |-> 0,
     precisionMode |-> FALSE, maxVal |-> 0, factor |-> F32One, buttons |-> 0, dpad |-> 0,
     i |-> 0]

\* variant: the front-right sum adds the rotation instead of subtracting it
MixLocalsFrontRightSign(raw_lx, raw_ly, raw_rx, buttons) ==
    LET rx == DeadZone(-raw_rx)
        lx == DeadZone(raw_lx)
        ly == -DeadZone(raw_ly)
        rawFL == ly + lx + rx
        rawFR == ly - lx + rx
        rawBL == ly - lx + rx
        rawBR == ly + lx - rx
        precisionMode == And8(buttons % 256, PRECISION_BIT) # 0
        maxVal == MaxVal(rawFL, rawFR, rawBL, rawBR)
    IN  [raw_lx |-> raw_lx, raw_ly |-> raw_ly, raw_rx |-> raw_rx,
         lx |-> lx, ly |-> ly, rx |-> rx,
         rawFL |-> rawFL, rawFR |-> rawFR, rawBL |-> rawBL, rawBR |-> rawBR,
         precisionMode |-> precisionMode, maxVal |-> maxVal,
         factor |-> Factor(maxVal, DesiredMax(precisionMode)),
         buttons |-> buttons, dpad |-> 0, i |-> 0]

\* variant: the Y axis is not inverted
MixLocalsNoInvert(raw_lx, raw_ly, raw_rx, buttons) ==
    LET rx == DeadZone(-raw_rx)
        lx == DeadZone(raw_lx)
        ly == DeadZone(raw_ly)
        rawFL == ly + lx + rx
        rawFR == ly - lx - rx
        rawBL == ly - lx + rx
        rawBR == ly + lx - rx
        precisionMode == And8(buttons % 256, PRECISION_BIT) # 0
        maxVal == MaxVal(rawFL, rawFR, rawBL, rawBR)
    IN  [raw_lx |-> raw_lx, raw_ly |-> raw_ly, raw_rx |-> raw_rx,
         lx |-> lx, ly |-> ly, rx |-> rx,
         rawFL |-> rawFL, rawFR |-> rawFR, rawBL |-> rawBL, rawBR |-> rawBR,
         precisionMode |-> precisionMode, maxVal |-> maxVal,
         factor |-> Factor(maxVal, DesiredMax(precisionMode)),
         buttons |-> buttons, dpad |-> 0, i |-> 0]

\* lines 360-375: the locals computed from the axes and buttons of a snapshot
\* (the loop index i is filled in by the caller)
MixLocals(raw_lx, raw_ly, raw_rx, buttons) ==
    LET rx == DeadZone(-raw_rx)
        lx == DeadZone(raw_lx)
        ly == -DeadZone(raw_ly)
        rawFL == ly + lx + rx
        rawFR == ly - lx - rx
        rawBL == ly - lx + rx
        rawBR == ly + lx - rx
        precisionMode == And8(buttons % 256, PRECISION_BIT) # 0
        maxVal == MaxVal(rawFL, rawFR, rawBL, rawBR)
    IN  [raw_lx |-> raw_lx, raw_ly |-> raw_ly, raw_rx |-> raw_rx,
         lx |-> lx, ly |-> ly, rx |-> rx,
         rawFL |-> rawFL, rawFR |-> rawFR, rawBL |-> rawBL, rawBR |-> rawBR,
         precisionMode |-> precisionMode, maxVal |-> maxVal,
         factor |-> Factor(maxVal, DesiredMax(precisionMode)),
         buttons |-> buttons, dpad |-> 0, i |-> 0]

\* lines 360-379: the four commands one snapshot stores
CommandSet(raw_lx, raw_ly, raw_rx, buttons) ==
    LET l == MixLocals(raw_lx, raw_ly, raw_rx, buttons)
    IN  <<F32MulTrunc(l.rawFL, l.factor), F32MulTrunc(l.rawFR, l.factor),
          F32MulTrunc(l.rawBL, l.factor), F32MulTrunc(l.rawBR, l.factor)>>

(***************************************************************************)
(* Direction byte: setM1..setM4 and setM1Signed..setM4Signed               *)
(***************************************************************************)
\* variant: the reversal flag is ignored
DirNoReversal(dir, rev) == dir

\* lines 229, 238, 248, 258: if (Mx_REV) dir = ~dir
Dir(dir, rev) == IF rev THEN Not8(dir) ELSE dir

\* variant: full overwrite of the byte instead of the masked update
SetM1ByteOverwrite(ms, dir) == Shl8(Dir(dir, M1_REV), 2)

SetM1Byte(ms, dir) ==
    LET d == Dir(dir, M1_REV)
    IN  Or8(And8(ms, Not8(12)), Shl8(d, 2))

SetM2Byte(ms, dir) ==
    LET d == Dir(dir, M2_REV)
    IN  Or8(Or8(And8(ms, Not8(18)), And8(d, 2)), Shl8(And8(d, 1), 4))

SetM3Byte(ms, dir) ==
    LET d == Dir(dir, M3_REV)
    IN  Or8(Or8(And8(ms, Not8(160)), Shl8(And8(d, 2), 4)), Shl8(And8(d, 1), 7))

SetM4Byte(ms, dir) ==
    LET d == Dir(dir, M4_REV)
    IN  Or8(Or8(And8(ms, Not8(65)), Shl8(And8(d, 2), 5)), And8(d, 1))

SetByte(w, ms, dir) ==
    CASE w = 1 -> SetM1Byte(ms, dir)
      [] w = 2 -> SetM2Byte(ms, dir)
      [] w = 3 -> SetM3Byte(ms, dir)
      [] w = 4 -> SetM4Byte(ms, dir)

\* variant: forward and reverse exchanged
SignedDirSwapped(value) == IF value > 0 THEN REV ELSE IF value < 0 THEN FWD ELSE OFF

\* setMxSigned: the direction handed to setMx and the (uint8_t)abs(value) speed
SignedDir(value) == IF value > 0 THEN FWD ELSE IF value < 0 THEN REV ELSE OFF
SignedSpeed(value) == IF value = 0 THEN 0 ELSE U8(Abs(value))

(***************************************************************************)
(* Servo and electromagnet decisions                                       *)
(***************************************************************************)
\* variant: momentary mapping, the command falls back to 0 without a D-pad bit
ServoCommandMomentary(dpad, old) ==
    IF And8(dpad, DPAD_INC) # 0 /\ And8(dpad, DPAD_DEC) = 0 THEN 1
    ELSE IF And8(dpad, DPAD_DEC) # 0 /\ And8(dpad, DPAD_INC) = 0 THEN -1
    ELSE 0

\* variant: the increase bit wins when both bits are set
ServoCommandIncWins(dpad, old) ==
    IF And8(dpad, DPAD_INC) # 0 THEN 1
    ELSE IF And8(dpad, DPAD_DEC) # 0 THEN -1
    ELSE old

\* bluetoothTask: the new servo_command for a D-pad value
ServoCommand(dpad, old) ==
    IF And8(dpad, DPAD_INC) # 0 /\ And8(dpad, DPAD_DEC) = 0 THEN 1
    ELSE IF And8(dpad, DPAD_DEC) # 0 /\ And8(dpad, DPAD_INC) = 0 THEN -1
    ELSE old

\* variant: a trigger exactly at the threshold counts as pressed
PressedInclusive(v) == v >= analogThreshold

\* drivingTask: pressed tests of the servo-2 stepping
Pressed(v) == v > analogThreshold

\* variant: a trigger exactly at the threshold does not count as released
ReleasedStrict(v) == v < analogThreshold

Released(v) == v <= analogThreshold

\* variant: the step up is not limited
StepUpNoLimit(angle) == angle + servo2Step

\* lines 443-447
StepUp(angle) ==
    IF angle < 180
    THEN (IF angle + servo2Step > 180 THEN 180 ELSE angle + servo2Step)
    ELSE angle

StepDown(angle) ==
    IF angle > 0
    THEN (IF angle - servo2Step < 0 THEN 0 ELSE angle - servo2Step)
    ELSE angle

(***************************************************************************)
(* State                                                                   *)
(***************************************************************************)
VARIABLES
    myControllers,        \* slot -> controller or NULL
    linked,               \* controllers the Bluetooth stack holds connected
    hasData,              \* slots whose controller got fresh data in the last
                          \* BP32.update()
    pcB,                  \* position of bluetoothTask
    dataUpdated,          \* bluetoothTask local: result of BP32.update()
    bt,                   \* bluetoothTask locals of the snapshot being processed
    m1_cmd, m2_cmd, m3_cmd, m4_cmd,
    servo_command, throttle_value, brake_value,
    emag_pin, emag_duty,  \* EMAG_IN1 level and EMAG_PWM_CHANNEL duty
    pcD,                  \* position of drivingTask
    motor_state,          \* packed direction byte
    sr_out,               \* byte last sent to the shift register
    duty,                 \* wheel -> duty last written to its LEDC channel
    current_servo_angle, servo2_angle,
    servo1_out, servo2_out,   \* angles last written to the servos
    s2seen,               \* history: throttle/brake classes stored during the
                          \* servo-2 evaluation in progress
    upRun, upPure, downRun, downPure,  \* history: runs of servo-2 ticks since boot
    lastSlot,             \* history: slot processed by the previous tick of
                          \* bluetoothTask, 0 if none or the links changed since
    btReads,              \* history: shared variables bluetoothTask has read
    emagSeen,             \* history: <<dpad, pin, duty>> at the end of each
                          \* electromagnet block bluetoothTask has run
    s1Stable,             \* history: no other servo_command stored since the
                          \* current tick of drivingTask started
    s1AtStart,            \* history: servo_command when the current tick of
                          \* drivingTask started
    s1First,              \* history: the current tick of drivingTask is the
                          \* first that started after servo_command changed
    wrote                 \* history: actuators drivingTask has written in its
                          \* current tick

ctlVars == <<myControllers, linked, hasData>>
btVars == <<pcB, dataUpdated, bt>>
cmdVars == <<m1_cmd, m2_cmd, m3_cmd, m4_cmd>>
sharedVars == <<m1_cmd, m2_cmd, m3_cmd, m4_cmd, servo_command, throttle_value, brake_value>>
emagVars == <<emag_pin, emag_duty>>
motorVars == <<motor_state, sr_out, duty>>
servoVars == <<current_servo_angle, servo2_angle, servo1_out, servo2_out>>
histVars == <<s2seen, upRun, upPure, downRun, downPure, lastSlot, btReads, emagSeen, s1Stable>>
\* history kept by bluetoothTask alone, and by drivingTask alone
btHist == <<btReads, emagSeen, s1Stable>>
runHist == <<s2seen, upRun, upPure, downRun, downPure, lastSlot>>
dtHist == <<s1AtStart, s1First, wrote>>
dtVars == <<pcD, motor_state, sr_out, duty, current_servo_angle, servo2_angle,
            servo1_out, servo2_out, s1AtStart, s1First, wrote>>
fwVars == <<myControllers, linked, hasData, pcB, dataUpdated, bt, m1_cmd, m2_cmd, m3_cmd, m4_cmd,
            servo_command, throttle_value, brake_value, emag_pin, emag_duty, pcD,
            motor_state, sr_out, duty, current_servo_angle, servo2_angle,
            servo1_out, servo2_out, s2seen, upRun, upPure, downRun, downPure, lastSlot,
            btReads, emagSeen, s1Stable, s1AtStart, s1First, wrote>>

(***************************************************************************)
(* State of the dashboard backend (robot-dashboard/backend/server.js).     *)
(* The backend is a separate process: it shares no state with the          *)
(* firmware, so every firmware action leaves dashVars unchanged and every  *)
(* backend action leaves fwVars unchanged.                                 *)
(***************************************************************************)
VARIABLES
    readyState,           \* socket -> "CLOSED" | "OPEN" | "CLOSING"; a socket is
                          \* CLOSED until its connection event and after its
                          \* close event
    dashboardSockets,     \* keys of the dashboardSockets Map
    piClientSockets,      \* keys of the piClientSockets Map
    recordingState,       \* "off" | "on" | "paused"
    currentSessionDir,    \* session directory or null
    frameCounter,
    sessionDirs,          \* file system: session directories created so far
    handled               \* history: the event handled last, with the frame
                          \* files <<directory, frame number>> its handler wrote
                          \* and the sockets its handler sent a frame to

dashVars == <<readyState, dashboardSockets, piClientSockets, recordingState,
              currentSessionDir, frameCounter, sessionDirs, handled>>

recVars == <<recordingState, currentSessionDir, frameCounter>>

vars == <<fwVars, dashVars>>

MaxSockets == 2
MaxFrames == 2
MaxSessions == 2

Sockets == 1..MaxSockets

\* JavaScript null as the value of currentSessionDir; session directories are
\* numbered from 1 in the order they are created.
null == 0

Event(type, ws, saved, frameTo) ==
    [type |-> type, ws |-> ws, saved |-> saved, frameTo |-> frameTo]

BootDash ==
    /\ readyState = [ws \in Sockets |-> "CLOSED"]
    /\ dashboardSockets = {}
    /\ piClientSockets = {}
    /\ recordingState = "off"
    /\ currentSessionDir = null
    /\ frameCounter = 0
    /\ sessionDirs = 0
    /\ handled = Event("boot", 0, {}, {})

\* globals as initialised and as setup() leaves them: commands 0, servo 1 at
\* 0, servo 2 at 90, electromagnet off, PWM duties 0
BootShared ==
    /\ m1_cmd = 0 /\ m2_cmd = 0 /\ m3_cmd = 0 /\ m4_cmd = 0
    /\ servo_command = 0
    /\ throttle_value = 0 /\ brake_value = 0

\* variant: setup does not move servo 1 to 0, the angle is the initialiser of
\* the global
BootActuatorsNoServoInit ==
    /\ emag_pin = LOW /\ emag_duty = 0
    /\ duty = [w \in 1..4 |-> 0]
    /\ current_servo_angle = 90
    /\ servo2_angle = 90
    /\ servo1_out = 90
    /\ servo2_out = 90

BootActuators ==
    /\ emag_pin = LOW /\ emag_duty = 0
    /\ duty = [w \in 1..4 |-> 0]
    /\ current_servo_angle = 0
    /\ servo2_angle = 90
    /\ servo1_out = 0
    /\ servo2_out = 90

BootHist ==
    /\ s2seen = {}
    /\ upRun = 0 /\ upPure = TRUE /\ downRun = 0 /\ downPure = TRUE
    /\ lastSlot = 0
    /\ btReads = {} /\ emagSeen = {}
    /\ s1Stable = TRUE /\ s1AtStart = 0 /\ s1First = FALSE
    /\ wrote = {}

\* state after setup(): no controller, both tasks created
Init ==
    /\ myControllers = [i \in Slots |-> NULL]
    /\ linked = {}
    /\ hasData = {}
    /\ pcB = "update"
    /\ dataUpdated = FALSE
    /\ bt = BtIdle
    /\ BootShared
    /\ BootActuators
    /\ BootHist
    /\ BootDash
    /\ pcD = "m1"
    /\ motor_state = 0
    /\ sr_out = 0

(***************************************************************************)
(* History bookkeeping (no effect on the program state)                    *)
(***************************************************************************)
\* which of the stored triggers is over the threshold of 100
TrigClass(t, b) ==
    IF t > 100 /\ b > 100 THEN "both"
    ELSE IF t > 100 THEN "thr"
    ELSE IF b > 100 THEN "brk"
    ELSE "none"

S2Window == {"s2_t1", "s2_b1", "s2_b2", "s2_t2"}

\* a trigger store by bluetoothTask while drivingTask evaluates servo 2
SeenAfterStore(t, b) == IF pcD \in S2Window THEN s2seen \cup {TrigClass(t, b)} ELSE s2seen

\* Runs of servo-2 ticks since boot.  upRun = N >= 0 with upPure: every tick
\* so far had throttle over the threshold and brake not over it throughout its
\* evaluation; upRun = N without upPure: the same for the first N - 1 ticks,
\* and in the last one throttle stayed over the threshold while brake was over
\* it at some point; -1: neither.  downRun, downPure: the same for brake.
RunNext(run, pure, ok) ==
    IF run >= 0 /\ run < MaxRun /\ pure /\ s2seen \subseteq ok THEN run + 1 ELSE -1

HistTick ==
    /\ s2seen' = {}
    /\ upRun' = RunNext(upRun, upPure, {"thr", "both"})
    /\ upPure' = (s2seen = {"thr"} /\ RunNext(upRun, upPure, {"thr", "both"}) >= 0)
    /\ downRun' = RunNext(downRun, downPure, {"brk", "both"})
    /\ downPure' = (s2seen = {"brk"} /\ RunNext(downRun, downPure, {"brk", "both"}) >= 0)
    /\ UNCHANGED <<lastSlot, btHist>>

(***************************************************************************)
(* Bluepad32 callbacks (run inside BP32.update())                          *)
(***************************************************************************)
FirstSlot(S) == CHOOSE i \in S : \A j \in S : i <= j

\* variant: with no empty slot the new controller takes over the first slot
onConnectedControllerEvicts(ctl) ==
    LET empty == {i \in Slots : myControllers[i] = NULL}
    IN  IF empty # {}
        THEN myControllers' = [myControllers EXCEPT ![FirstSlot(empty)] = ctl]
        ELSE myControllers' = [myControllers EXCEPT ![1] = ctl]

\* lines 306-317
onConnectedController(ctl) ==
    LET empty == {i \in Slots : myControllers[i] = NULL}
    IN  IF empty # {}
        THEN myControllers' = [myControllers EXCEPT ![FirstSlot(empty)] = ctl]
        ELSE UNCHANGED myControllers

\* variant: a disconnect clears the first occupied slot, whoever holds it
onDisconnectedControllerFirstHeld(ctl) ==
    LET held == {i \in Slots : myControllers[i] # NULL}
    IN  IF held # {}
        THEN myControllers' = [myControllers EXCEPT ![FirstSlot(held)] = NULL]
        ELSE UNCHANGED myControllers

\* lines 319-328
onDisconnectedController(ctl) ==
    LET held == {i \in Slots : myControllers[i] = ctl}
    IN  IF held # {}
        THEN myControllers' = [myControllers EXCEPT ![FirstSlot(held)] = NULL]
        ELSE UNCHANGED myControllers

BP_Connect(CT) ==
    /\ pcB = "update"
    /\ \E ctl \in CT \ linked :
          /\ linked' = linked \cup {ctl}
          /\ onConnectedController(ctl)
    /\ lastSlot' = 0
    /\ UNCHANGED <<hasData, btVars, sharedVars, emagVars, dtVars, s2seen,
                   upRun, upPure, downRun, downPure, btHist>>
    /\ UNCHANGED dashVars

BP_Disconnect(CT) ==
    /\ pcB = "update"
    /\ \E ctl \in CT \cap linked :
          /\ linked' = linked \ {ctl}
          /\ onDisconnectedController(ctl)
          /\ hasData' = {i \in hasData : myControllers[i] # ctl}
    /\ lastSlot' = 0
    /\ UNCHANGED <<btVars, sharedVars, emagVars, dtVars, s2seen,
                   upRun, upPure, downRun, downPure, btHist>>
    /\ UNCHANGED dashVars

(***************************************************************************)
(* bluetoothTask                                                           *)
(***************************************************************************)
\* slots that hold a controller object
HeldSlots == {i \in Slots : myControllers[i] # NULL}

\* slots the test of line 340 accepts: ctl && ctl->isConnected() && ctl->hasData()
Ready(hd) ==
    {i \in Slots : myControllers[i] # NULL /\ myControllers[i] \in linked /\ i \in hd}

\* variant: no break, every ready slot is processed and the last one's data stays
BT_UpdateLastReady(PAD) ==
    /\ pcB = "update"
    /\ \E hd \in SUBSET HeldSlots :
          /\ Ready(hd) # {}
          /\ hasData' = hd
          /\ LET i == CHOOSE j \in Ready(hd) : \A k \in Ready(hd) : k <= j
             IN  \E d \in PAD[myControllers[i]] :
                    /\ bt' = [MixLocals(d[1], d[2], d[3], d[4]) EXCEPT !.i = i]
                    /\ lastSlot' = i
    /\ dataUpdated' = TRUE
    /\ pcB' = "m1"
    /\ UNCHANGED <<myControllers, linked, sharedVars, emagVars, dtVars, s2seen,
                   upRun, upPure, downRun, downPure, btHist>>
    /\ UNCHANGED dashVars

\* BP32.update() returned true and the first ready slot is processed: lines
\* 335-375.  PAD[c] holds the <<axisX, axisY, axisRX, buttons>> controller c
\* can report.
BT_UpdateFirstReady(PAD) ==
    /\ pcB = "update"
    /\ \E hd \in SUBSET HeldSlots :
          /\ Ready(hd) # {}
          /\ hasData' = hd
          /\ LET i == FirstSlot(Ready(hd))
             IN  \E d \in PAD[myControllers[i]] :
                    /\ bt' = [MixLocals(d[1], d[2], d[3], d[4]) EXCEPT !.i = i]
                    /\ lastSlot' = i
    /\ dataUpdated' = TRUE
    /\ pcB' = "m1"
    /\ UNCHANGED <<myControllers, linked, sharedVars, emagVars, dtVars, s2seen,
                   upRun, upPure, downRun, downPure, btHist>>
    /\ UNCHANGED dashVars

\* the same with every controller reporting from the same sets
BT_UpdateSnapshot(LX, LY, RX, BTN) ==
    BT_UpdateFirstReady([c \in Pads |-> LX \X LY \X RX \X BTN])

\* variant: a tick without a snapshot stops the wheels
BT_UpdateNoneStops ==
    /\ pcB = "update"
    /\ \E upd \in BOOLEAN, hd \in SUBSET HeldSlots :
          /\ upd \/ hd = {}
          /\ ~upd \/ Ready(hd) = {}
          /\ dataUpdated' = upd
          /\ hasData' = hd
    /\ pcB' = "delay"
    /\ lastSlot' = 0
    /\ m1_cmd' = 0 /\ m2_cmd' = 0 /\ m3_cmd' = 0 /\ m4_cmd' = 0
    /\ UNCHANGED <<myControllers, linked, bt, servo_command, throttle_value, brake_value,
                   emagVars, dtVars, s2seen, upRun, upPure, downRun, downPure, btHist>>
    /\ UNCHANGED dashVars

\* BP32.update() returned false, or no slot is connected with data
BT_UpdateNone ==
    /\ pcB = "update"
    /\ \E upd \in BOOLEAN, hd \in SUBSET HeldSlots :
          /\ upd \/ hd = {}
          /\ ~upd \/ Ready(hd) = {}
          /\ dataUpdated' = upd
          /\ hasData' = hd
    /\ pcB' = "delay"
    /\ lastSlot' = 0
    /\ UNCHANGED <<myControllers, linked, bt, sharedVars, emagVars, dtVars, s2seen,
                   upRun, upPure, downRun, downPure, btHist>>
    /\ UNCHANGED dashVars

\* variant: bluetoothTask drives wheel 1 itself as soon as it has the command
BT_WriteM1Drives ==
    /\ pcB = "m1"
    /\ m1_cmd' = F32MulTrunc(bt.rawFL, bt.factor)
    /\ pcB' = "m2"
    /\ motor_state' = SetByte(1, motor_state, SignedDir(F32MulTrunc(bt.rawFL, bt.factor)))
    /\ sr_out' = SetByte(1, motor_state, SignedDir(F32MulTrunc(bt.rawFL, bt.factor)))
    /\ duty' = [duty EXCEPT ![1] = SignedSpeed(F32MulTrunc(bt.rawFL, bt.factor))]
    /\ UNCHANGED <<ctlVars, dataUpdated, bt, m2_cmd, m3_cmd, m4_cmd, servo_command,
                   throttle_value, brake_value, emagVars, pcD, servoVars, s1AtStart,
                   s1First, wrote, histVars>>
    /\ UNCHANGED dashVars

\* line 376
BT_WriteM1 ==
    /\ pcB = "m1"
    /\ m1_cmd' = F32MulTrunc(bt.rawFL, bt.factor)
    /\ pcB' = "m2"
    /\ UNCHANGED <<ctlVars, dataUpdated, bt, m2_cmd, m3_cmd, m4_cmd, servo_command,
                   throttle_value, brake_value, emagVars, dtVars, histVars>>
    /\ UNCHANGED dashVars

BT_WriteM2 ==
    /\ pcB = "m2"
    /\ m2_cmd' = F32MulTrunc(bt.rawFR, bt.factor)
    /\ pcB' = "m3"
    /\ UNCHANGED <<ctlVars, dataUpdated, bt, m1_cmd, m3_cmd, m4_cmd, servo_command,
                   throttle_value, brake_value, emagVars, dtVars, histVars>>
    /\ UNCHANGED dashVars

BT_WriteM3 ==
    /\ pcB = "m3"
    /\ m3_cmd' = F32MulTrunc(bt.rawBL, bt.factor)
    /\ pcB' = "m4"
    /\ UNCHANGED <<ctlVars, dataUpdated, bt, m1_cmd, m2_cmd, m4_cmd, servo_command,
                   throttle_value, brake_value, emagVars, dtVars, histVars>>
    /\ UNCHANGED dashVars

BT_WriteM4 ==
    /\ pcB = "m4"
    /\ m4_cmd' = F32MulTrunc(bt.rawBR, bt.factor)
    /\ pcB' = "dpad"
    /\ UNCHANGED <<ctlVars, dataUpdated, bt, m1_cmd, m2_cmd, m3_cmd, servo_command,
                   throttle_value, brake_value, emagVars, dtVars, histVars>>
    /\ UNCHANGED dashVars

\* variant: engage and disengage together cancel each other
BT_DpadBothCancel(DP) ==
    /\ pcB = "dpad"
    /\ \E dpad \in DP :
          /\ bt' = [bt EXCEPT !.dpad = dpad]
          /\ IF And8(dpad, DPAD_ENGAGE) # 0 /\ And8(dpad, DPAD_DISENGAGE) = 0
             THEN /\ emag_pin' = HIGH /\ UNCHANGED emag_duty /\ pcB' = "emag_on"
                  /\ UNCHANGED emagSeen
             ELSE IF And8(dpad, DPAD_DISENGAGE) # 0 /\ And8(dpad, DPAD_ENGAGE) = 0
             THEN /\ emag_duty' = 0 /\ UNCHANGED emag_pin /\ pcB' = "emag_off"
                  /\ UNCHANGED emagSeen
             ELSE /\ UNCHANGED emagVars /\ pcB' = "servo"
                  /\ emagSeen' = emagSeen \cup {<<dpad, emag_pin, emag_duty>>}
    /\ UNCHANGED <<ctlVars, dataUpdated, sharedVars, dtVars, runHist, btReads, s1Stable>>
    /\ UNCHANGED dashVars

\* variant: disengage deasserts the pin before it zeroes the duty
BT_DpadPinFirst(DP) ==
    /\ pcB = "dpad"
    /\ \E dpad \in DP :
          /\ bt' = [bt EXCEPT !.dpad = dpad]
          /\ IF And8(dpad, DPAD_ENGAGE) # 0
             THEN /\ emag_pin' = HIGH /\ UNCHANGED emag_duty /\ pcB' = "emag_on"
                  /\ UNCHANGED emagSeen
             ELSE IF And8(dpad, DPAD_DISENGAGE) # 0
             THEN /\ emag_pin' = LOW /\ UNCHANGED emag_duty /\ pcB' = "emag_off"
                  /\ UNCHANGED emagSeen
             ELSE /\ UNCHANGED emagVars /\ pcB' = "servo"
                  /\ emagSeen' = emagSeen \cup {<<dpad, emag_pin, emag_duty>>}
    /\ UNCHANGED <<ctlVars, dataUpdated, sharedVars, dtVars, runHist, btReads, s1Stable>>
    /\ UNCHANGED dashVars

\* variant: the engage bit toggles the electromagnet
BT_DpadToggles(DP) ==
    /\ pcB = "dpad"
    /\ \E dpad \in DP :
          /\ bt' = [bt EXCEPT !.dpad = dpad]
          /\ IF And8(dpad, DPAD_ENGAGE) # 0 /\ emag_pin = LOW
             THEN /\ emag_pin' = HIGH /\ UNCHANGED emag_duty /\ pcB' = "emag_on"
                  /\ UNCHANGED emagSeen
             ELSE IF And8(dpad, DPAD_ENGAGE) # 0 \/ And8(dpad, DPAD_DISENGAGE) # 0
             THEN /\ emag_duty' = 0 /\ UNCHANGED emag_pin /\ pcB' = "emag_off"
                  /\ UNCHANGED emagSeen
             ELSE /\ UNCHANGED emagVars /\ pcB' = "servo"
                  /\ emagSeen' = emagSeen \cup {<<dpad, emag_pin, emag_duty>>}
    /\ UNCHANGED <<ctlVars, dataUpdated, sharedVars, dtVars, runHist, btReads, s1Stable>>
    /\ UNCHANGED dashVars

\* variant: the disengage bit is tested first
BT_DpadDisengageFirst(DP) ==
    /\ pcB = "dpad"
    /\ \E dpad \in DP :
          /\ bt' = [bt EXCEPT !.dpad = dpad]
          /\ IF And8(dpad, DPAD_DISENGAGE) # 0
             THEN /\ emag_duty' = 0 /\ UNCHANGED emag_pin /\ pcB' = "emag_off"
                  /\ UNCHANGED emagSeen
             ELSE IF And8(dpad, DPAD_ENGAGE) # 0
             THEN /\ emag_pin' = HIGH /\ UNCHANGED emag_duty /\ pcB' = "emag_on"
                  /\ UNCHANGED emagSeen
             ELSE /\ UNCHANGED emagVars /\ pcB' = "servo"
                  /\ emagSeen' = emagSeen \cup {<<dpad, emag_pin, emag_duty>>}
    /\ UNCHANGED <<ctlVars, dataUpdated, sharedVars, dtVars, runHist, btReads, s1Stable>>
    /\ UNCHANGED dashVars

\* variant: the electromagnet is held only while the engage bit is held
BT_DpadMomentary(DP) ==
    /\ pcB = "dpad"
    /\ \E dpad \in DP :
          /\ bt' = [bt EXCEPT !.dpad = dpad]
          /\ IF And8(dpad, DPAD_ENGAGE) # 0
             THEN emag_pin' = HIGH /\ UNCHANGED emag_duty /\ pcB' = "emag_on"
             ELSE emag_duty' = 0 /\ UNCHANGED emag_pin /\ pcB' = "emag_off"
    /\ UNCHANGED <<ctlVars, dataUpdated, sharedVars, dtVars, histVars>>
    /\ UNCHANGED dashVars

\* lines 382-390: read the D-pad and do the first electromagnet write
BT_Dpad(DP) ==
    /\ pcB = "dpad"
    /\ \E dpad \in DP :
          /\ bt' = [bt EXCEPT !.dpad = dpad]
          /\ IF And8(dpad, DPAD_ENGAGE) # 0
             THEN /\ emag_pin' = HIGH /\ UNCHANGED emag_duty /\ pcB' = "emag_on"
                  /\ UNCHANGED emagSeen
             ELSE IF And8(dpad, DPAD_DISENGAGE) # 0
             THEN /\ emag_duty' = 0 /\ UNCHANGED emag_pin /\ pcB' = "emag_off"
                  /\ UNCHANGED emagSeen
             ELSE /\ UNCHANGED emagVars /\ pcB' = "servo"
                  /\ emagSeen' = emagSeen \cup {<<dpad, emag_pin, emag_duty>>}
    /\ UNCHANGED <<ctlVars, dataUpdated, sharedVars, dtVars, runHist, btReads, s1Stable>>
    /\ UNCHANGED dashVars

BT_EmagOn ==
    /\ pcB = "emag_on"
    /\ emag_duty' = EMAG_PWM_DUTY
    /\ pcB' = "servo"
    /\ emagSeen' = emagSeen \cup {<<bt.dpad, emag_pin, EMAG_PWM_DUTY>>}
    /\ UNCHANGED <<ctlVars, dataUpdated, bt, sharedVars, emag_pin, dtVars, runHist,
                   btReads, s1Stable>>
    /\ UNCHANGED dashVars

BT_EmagOff ==
    /\ pcB = "emag_off"
    /\ emag_pin' = LOW
    /\ pcB' = "servo"
    /\ emagSeen' = emagSeen \cup {<<bt.dpad, LOW, emag_duty>>}
    /\ UNCHANGED <<ctlVars, dataUpdated, bt, sharedVars, emag_duty, dtVars, runHist,
                   btReads, s1Stable>>
    /\ UNCHANGED dashVars

\* variant: the D-pad bits toggle the command instead of setting it
BT_ServoToggles ==
    /\ pcB = "servo"
    /\ servo_command' = IF bt.dpad % 4 \in {1, 2} THEN (IF servo_command = 1 THEN -1 ELSE 1)
                        ELSE servo_command
    /\ pcB' = "throttle"
    /\ btReads' = btReads \cup (IF bt.dpad % 4 \in {1, 2} THEN {"servo_command"} ELSE {})
    /\ s1Stable' = (s1Stable /\ servo_command' = servo_command)
    /\ UNCHANGED <<ctlVars, dataUpdated, bt, cmdVars, throttle_value, brake_value,
                   emagVars, dtVars, runHist, emagSeen>>
    /\ UNCHANGED dashVars

\* lines 395-399
BT_Servo ==
    /\ pcB = "servo"
    /\ servo_command' = ServoCommand(bt.dpad, servo_command)
    /\ pcB' = "throttle"
    /\ s1Stable' = (s1Stable /\ servo_command' = servo_command)
    /\ UNCHANGED <<ctlVars, dataUpdated, bt, cmdVars, throttle_value, brake_value,
                   emagVars, dtVars, runHist, btReads, emagSeen>>
    /\ UNCHANGED dashVars

\* line 403; the throttle comes from TR
BT_Throttle(TR) ==
    /\ pcB = "throttle"
    /\ \E t \in TR :
          /\ throttle_value' = t
          /\ s2seen' = SeenAfterStore(t, brake_value)
    /\ pcB' = "brake"
    /\ UNCHANGED <<ctlVars, dataUpdated, bt, cmdVars, servo_command, brake_value,
                   emagVars, dtVars, upRun, upPure, downRun, downPure, lastSlot, btHist>>
    /\ UNCHANGED dashVars

\* lines 404-405 for a controller whose <<throttle, brake>> is one of PAIRS:
\* the brake that goes with the throttle just stored, then the diagnostic line
\* that prints throttle_value and brake_value
BT_BrakeOf(PAIRS) ==
    /\ pcB = "brake"
    /\ \E b \in {pr[2] : pr \in {q \in PAIRS : q[1] = throttle_value}} :
          /\ brake_value' = b
          /\ s2seen' = SeenAfterStore(throttle_value, b)
    /\ pcB' = "delay"
    /\ btReads' = btReads \cup {"throttle_value", "brake_value"}
    /\ UNCHANGED <<ctlVars, dataUpdated, bt, cmdVars, servo_command, throttle_value,
                   emagVars, dtVars, upRun, upPure, downRun, downPure, lastSlot,
                   emagSeen, s1Stable>>
    /\ UNCHANGED dashVars

\* the same with the brake drawn from TR whatever the throttle is
BT_Brake(TR) == BT_BrakeOf({<<throttle_value, b>> : b \in TR})

\* vTaskDelay, then the next iteration with fresh locals
BT_Delay ==
    /\ pcB = "delay"
    /\ pcB' = "update"
    /\ dataUpdated' = FALSE
    /\ bt' = BtIdle
    /\ UNCHANGED <<ctlVars, sharedVars, emagVars, dtVars, histVars>>
    /\ UNCHANGED dashVars

(***************************************************************************)
(* drivingTask                                                             *)
(***************************************************************************)
\* the actuator a wheel number stands for
WheelName == <<"m1", "m2", "m3", "m4">>

\* variant: the byte goes to the shift register before it is updated
SetSignedStaleByte(w, value) ==
    /\ motor_state' = SetByte(w, motor_state, SignedDir(value))
    /\ sr_out' = motor_state
    /\ duty' = [duty EXCEPT ![w] = SignedSpeed(value)]
    /\ wrote' = wrote \cup {WheelName[w]}

\* setMxSigned(value) for wheel w: direction byte, shift register, LEDC duty
SetSigned(w, value) ==
    /\ motor_state' = SetByte(w, motor_state, SignedDir(value))
    /\ sr_out' = SetByte(w, motor_state, SignedDir(value))
    /\ duty' = [duty EXCEPT ![w] = SignedSpeed(value)]
    /\ wrote' = wrote \cup {WheelName[w]}

DT_SetM1 ==
    /\ pcD = "m1"
    /\ SetSigned(1, m1_cmd)
    /\ pcD' = "m2"
    /\ UNCHANGED <<ctlVars, btVars, sharedVars, emagVars, servoVars, histVars, s1AtStart, s1First>>
    /\ UNCHANGED dashVars

DT_SetM2 ==
    /\ pcD = "m2"
    /\ SetSigned(2, m2_cmd)
    /\ pcD' = "m3"
    /\ UNCHANGED <<ctlVars, btVars, sharedVars, emagVars, servoVars, histVars, s1AtStart, s1First>>
    /\ UNCHANGED dashVars

DT_SetM3 ==
    /\ pcD = "m3"
    /\ SetSigned(3, m3_cmd)
    /\ pcD' = "m4"
    /\ UNCHANGED <<ctlVars, btVars, sharedVars, emagVars, servoVars, histVars, s1AtStart, s1First>>
    /\ UNCHANGED dashVars

DT_SetM4 ==
    /\ pcD = "m4"
    /\ SetSigned(4, m4_cmd)
    /\ pcD' = "servo1a"
    /\ UNCHANGED <<ctlVars, btVars, sharedVars, emagVars, servoVars, histVars, s1AtStart, s1First>>
    /\ UNCHANGED dashVars

\* variant: the servo moves towards the target by at most 90 per tick
WriteServo1Slew(targetAngle) ==
    /\ current_servo_angle' = Max2(current_servo_angle - 90,
                                   Min2(current_servo_angle + 90, targetAngle))
    /\ servo1_out' = Max2(current_servo_angle - 90,
                          Min2(current_servo_angle + 90, targetAngle))
    /\ pcD' = "s2_t1"
    /\ s2seen' = {TrigClass(throttle_value, brake_value)}
    /\ wrote' = wrote \cup {"servo1"}

\* lines 435-439, then on to the servo-2 evaluation
WriteServo1(targetAngle) ==
    /\ current_servo_angle' = targetAngle
    /\ servo1_out' = targetAngle
    /\ pcD' = "s2_t1"
    /\ s2seen' = {TrigClass(throttle_value, brake_value)}
    /\ wrote' = wrote \cup {"servo1"}

\* line 430: first read of servo_command
DT_Servo1a ==
    /\ pcD = "servo1a"
    /\ IF servo_command = 1
       THEN WriteServo1(180)
       ELSE pcD' = "servo1b" /\ UNCHANGED <<current_servo_angle, servo1_out, s2seen, wrote>>
    /\ UNCHANGED <<ctlVars, btVars, sharedVars, emagVars, motorVars, servo2_angle,
                   servo2_out, upRun, upPure, downRun, downPure, lastSlot, btHist,
                   s1AtStart, s1First>>
    /\ UNCHANGED dashVars

\* line 432: second read of servo_command
DT_Servo1b ==
    /\ pcD = "servo1b"
    /\ WriteServo1(IF servo_command = -1 THEN 0 ELSE current_servo_angle)
    /\ UNCHANGED <<ctlVars, btVars, sharedVars, emagVars, motorVars, servo2_angle,
                   servo2_out, upRun, upPure, downRun, downPure, lastSlot, btHist,
                   s1AtStart, s1First>>
    /\ UNCHANGED dashVars

\* line 456 and the delay: the servo-2 evaluation ends with this angle
WriteServo2(angle) ==
    /\ servo2_angle' = angle
    /\ servo2_out' = angle
    /\ pcD' = "delay"
    /\ HistTick
    /\ wrote' = wrote \cup {"servo2"}

S2Continue(next) ==
    /\ pcD' = next
    /\ UNCHANGED <<servo2_angle, servo2_out, histVars, wrote>>

\* line 442, left operand: throttle_value > analogThreshold
DT_S2_T1 ==
    /\ pcD = "s2_t1"
    /\ IF Pressed(throttle_value) THEN S2Continue("s2_b1") ELSE S2Continue("s2_b2")
    /\ UNCHANGED <<ctlVars, btVars, sharedVars, emagVars, motorVars,
                   current_servo_angle, servo1_out, s1AtStart, s1First>>
    /\ UNCHANGED dashVars

\* variant: servo 2 steps up only while a controller is connected
DT_S2_B1Watchdog ==
    /\ pcD = "s2_b1"
    /\ IF Released(brake_value)
       THEN WriteServo2(IF linked # {} THEN StepUp(servo2_angle) ELSE servo2_angle)
       ELSE S2Continue("s2_b2")
    /\ UNCHANGED <<ctlVars, btVars, sharedVars, emagVars, motorVars,
                   current_servo_angle, servo1_out, s1AtStart, s1First>>
    /\ UNCHANGED dashVars

\* line 442, right operand: brake_value <= analogThreshold
DT_S2_B1 ==
    /\ pcD = "s2_b1"
    /\ IF Released(brake_value) THEN WriteServo2(StepUp(servo2_angle))
       ELSE S2Continue("s2_b2")
    /\ UNCHANGED <<ctlVars, btVars, sharedVars, emagVars, motorVars,
                   current_servo_angle, servo1_out, s1AtStart, s1First>>
    /\ UNCHANGED dashVars

\* line 449, left operand: brake_value > analogThreshold
DT_S2_B2 ==
    /\ pcD = "s2_b2"
    /\ IF Pressed(brake_value) THEN S2Continue("s2_t2") ELSE WriteServo2(servo2_angle)
    /\ UNCHANGED <<ctlVars, btVars, sharedVars, emagVars, motorVars,
                   current_servo_angle, servo1_out, s1AtStart, s1First>>
    /\ UNCHANGED dashVars

\* line 449, right operand: throttle_value <= analogThreshold
DT_S2_T2 ==
    /\ pcD = "s2_t2"
    /\ IF Released(throttle_value) THEN WriteServo2(StepDown(servo2_angle))
       ELSE WriteServo2(servo2_angle)
    /\ UNCHANGED <<ctlVars, btVars, sharedVars, emagVars, motorVars,
                   current_servo_angle, servo1_out, s1AtStart, s1First>>
    /\ UNCHANGED dashVars

\* variant: drivingTask starts its next tick only once bluetoothTask has
\* finished one
DT_DelayWaits ==
    /\ pcD = "delay"
    /\ pcB = "delay"
    /\ pcD' = "m1"
    /\ s1AtStart' = servo_command
    /\ s1First' = (servo_command # s1AtStart)
    /\ s1Stable' = TRUE
    /\ wrote' = {}
    /\ UNCHANGED <<ctlVars, btVars, sharedVars, emagVars, motorVars, servoVars,
                   runHist, btReads, emagSeen>>
    /\ UNCHANGED dashVars

\* vTaskDelay; the next tick starts
DT_Delay ==
    /\ pcD = "delay"
    /\ pcD' = "m1"
    /\ s1AtStart' = servo_command
    /\ s1First' = (servo_command # s1AtStart)
    /\ s1Stable' = TRUE
    /\ wrote' = {}
    /\ UNCHANGED <<ctlVars, btVars, sharedVars, emagVars, motorVars, servoVars,
                   runHist, btReads, emagSeen>>
    /\ UNCHANGED dashVars

(***************************************************************************)
(* Specifications.  The controller inputs are drawn from the sets handed   *)
(* to the actions.  Each specification lets one group of inputs vary and   *)
(* holds the others at rest; the steps that are never enabled with those   *)
(* inputs at rest (the second electromagnet write without an electromagnet *)
(* D-pad bit, the second operand of a servo-2 test without a pressed       *)
(* trigger) are left out of its next-state relation.                       *)
(***************************************************************************)
Link(CT) == BP_Connect(CT) \/ BP_Disconnect(CT)

WheelWrites == BT_WriteM1 \/ BT_WriteM2 \/ BT_WriteM3 \/ BT_WriteM4

WheelSets == DT_SetM1 \/ DT_SetM2 \/ DT_SetM3 \/ DT_SetM4

\* input sets
OnePad == {1}
Centred == {0}
Rotate == {0, 300}
NoButtons == {0}
AtRest == {0}
DpadServo == {0, 1, 2, 3}
TrigVals == {100, 101}

\* wheels: both tasks, the right stick alternates between rest and rotation
Next ==
    \/ Link(OnePad)
    \/ BT_UpdateSnapshot(Centred, Centred, Rotate, NoButtons)
    \/ BT_UpdateNone
    \/ WheelWrites
    \/ BT_Dpad(AtRest) \/ BT_Servo \/ BT_Throttle(AtRest) \/ BT_Brake(AtRest)
    \/ BT_Delay
    \/ WheelSets
    \/ DT_Servo1a \/ DT_Servo1b \/ DT_S2_T1 \/ DT_S2_B2
    \/ DT_Delay

Spec == Init /\ [][Next]_vars

\* the same with the scheduling of the two tasks: each is pinned to a core of
\* its own (lines 520-521) and blocks only in vTaskDelay, so each keeps
\* taking steps
ProducerStep ==
    \/ BT_UpdateSnapshot(Centred, Centred, Rotate, NoButtons)
    \/ BT_UpdateNone
    \/ WheelWrites
    \/ BT_Dpad(AtRest) \/ BT_Servo \/ BT_Throttle(AtRest) \/ BT_Brake(AtRest)
    \/ BT_Delay

ConsumerStep ==
    \/ WheelSets
    \/ DT_Servo1a \/ DT_Servo1b \/ DT_S2_T1 \/ DT_S2_B2
    \/ DT_Delay

SpecFair == Init /\ [][Next]_vars /\ WF_vars(ProducerStep) /\ WF_vars(ConsumerStep)

\* servo 1: both tasks, the increase / decrease D-pad bits vary
NextServo1 ==
    \/ Link(OnePad)
    \/ BT_UpdateSnapshot(Centred, Centred, Centred, NoButtons)
    \/ BT_UpdateNone
    \/ WheelWrites
    \/ BT_Dpad(DpadServo) \/ BT_Servo \/ BT_Throttle(AtRest) \/ BT_Brake(AtRest)
    \/ BT_Delay
    \/ WheelSets
    \/ DT_Servo1a \/ DT_Servo1b \/ DT_S2_T1 \/ DT_S2_B2
    \/ DT_Delay

SpecServo1 == Init /\ [][NextServo1]_vars

\* servo 2: both tasks, throttle and brake vary around the threshold
NextServo2 ==
    \/ Link(OnePad)
    \/ BT_UpdateSnapshot(Centred, Centred, Centred, NoButtons)
    \/ BT_UpdateNone
    \/ WheelWrites
    \/ BT_Dpad(AtRest) \/ BT_Servo \/ BT_Throttle(TrigVals) \/ BT_Brake(TrigVals)
    \/ BT_Delay
    \/ WheelSets
    \/ DT_Servo1a \/ DT_Servo1b
    \/ DT_S2_T1 \/ DT_S2_B1 \/ DT_S2_B2 \/ DT_S2_T2
    \/ DT_Delay

SpecServo2 == Init /\ [][NextServo2]_vars

\* electromagnet: both tasks, the engage / disengage D-pad bits vary
DpadEmag == {0, 4, 8, 12}

NextEmag ==
    \/ Link(OnePad)
    \/ BT_UpdateSnapshot(Centred, Centred, Centred, NoButtons)
    \/ BT_UpdateNone
    \/ WheelWrites
    \/ BT_Dpad(DpadEmag) \/ BT_EmagOn \/ BT_EmagOff
    \/ BT_Servo \/ BT_Throttle(AtRest) \/ BT_Brake(AtRest)
    \/ BT_Delay
    \/ WheelSets
    \/ DT_Servo1a \/ DT_Servo1b \/ DT_S2_T1 \/ DT_S2_B2
    \/ DT_Delay

SpecEmag == Init /\ [][NextEmag]_vars

\* links: both tasks, two controllers that connect and disconnect; the first
\* one reports a rotation to one side, the other one to the other side
TwoPads == {1, 2}
PadRX(c) == IF c = 1 THEN 300 ELSE -300
PadData == [c \in Pads |-> {<<0, 0, PadRX(c), 0>>}]

NextLink ==
    \/ Link(TwoPads)
    \/ BT_UpdateFirstReady(PadData)
    \/ BT_UpdateNone
    \/ WheelWrites
    \/ BT_Dpad(AtRest) \/ BT_Servo \/ BT_Throttle(AtRest) \/ BT_Brake(AtRest)
    \/ BT_Delay
    \/ WheelSets
    \/ DT_Servo1a \/ DT_Servo1b \/ DT_S2_T1 \/ DT_S2_B2
    \/ DT_Delay

SpecLink == Init /\ [][NextLink]_vars

\* mixer: the first snapshot after boot, axes from a grid over -511..512 with
\* the dead-zone edges, the values around the normal cap and the range ends,
\* either speed mode; bluetoothTask has
\* computed its locals and stores the four commands
AxisEdges == {-511, -268, -221, -220, -200, -199, 199, 200, 220, 221, 268, 512}
AxisGrid == {v \in -511..512 : v % AxisStride = 0} \cup AxisEdges
MixButtons == {0, 32}

InitMix ==
    /\ myControllers = [i \in Slots |-> IF i = 1 THEN 1 ELSE NULL]
    /\ linked = {1}
    /\ hasData = {1}
    /\ pcB = "m1"
    /\ dataUpdated = TRUE
    /\ \E raw_lx \in AxisGrid, raw_ly \in AxisGrid, raw_rx \in AxisGrid,
          buttons \in MixButtons :
          bt = [MixLocals(raw_lx, raw_ly, raw_rx, buttons) EXCEPT !.i = 1]
    /\ BootShared
    /\ BootActuators
    /\ s2seen = {}
    /\ upRun = 0 /\ upPure = TRUE /\ downRun = 0 /\ downPure = TRUE
    /\ lastSlot = 1
    /\ btReads = {} /\ emagSeen = {}
    /\ s1Stable = TRUE /\ s1AtStart = 0 /\ s1First = FALSE
    /\ wrote = {}
    /\ BootDash
    /\ pcD = "m1"
    /\ motor_state = 0
    /\ sr_out = 0

NextMix == WheelWrites

SpecMix == InitMix /\ [][NextMix]_vars

\* direction byte: drivingTask about to set the four wheels, from any value of
\* the direction byte and any signs of the four stored commands
DriverCmds == {-220, 0, 220}

InitDriver ==
    /\ myControllers = [i \in Slots |-> NULL]
    /\ linked = {}
    /\ hasData = {}
    /\ pcB = "update"
    /\ dataUpdated = FALSE
    /\ bt = BtIdle
    /\ m1_cmd \in DriverCmds /\ m2_cmd \in DriverCmds
    /\ m3_cmd \in DriverCmds /\ m4_cmd \in DriverCmds
    /\ servo_command = 0
    /\ throttle_value = 0 /\ brake_value = 0
    /\ BootActuators
    /\ BootHist
    /\ BootDash
    /\ pcD = "m1"
    /\ motor_state \in 0..255
    /\ sr_out = motor_state

NextDriver == WheelSets

SpecDriver == InitDriver /\ [][NextDriver]_vars

(***************************************************************************)
(* Properties                                                              *)
(***************************************************************************)
Cmd(w) ==
    CASE w = 1 -> m1_cmd
      [] w = 2 -> m2_cmd
      [] w = 3 -> m3_cmd
      [] w = 4 -> m4_cmd

MaxAbsCmd == Max2(Max2(Abs(m1_cmd), Abs(m2_cmd)), Max2(Abs(m3_cmd), Abs(m4_cmd)))

\* wheels whose command bluetoothTask has stored from the snapshot in bt
WheelsWritten ==
    CASE pcB = "m1" -> {}
      [] pcB = "m2" -> {1}
      [] pcB = "m3" -> {1, 2}
      [] pcB = "m4" -> {1, 2, 3}
      [] pcB = "update" -> {}
      [] OTHER -> 1..4

PrecisionHeld == Bit(bt.buttons, 5) = 1

\* C1: every stored wheel command has magnitude at most 220, and at most 152
\* when it was stored from a snapshot with the precision button (0x0020) set.
C1_CapRespected ==
    \A w \in 1..4 :
        /\ Abs(Cmd(w)) <= 220
        /\ (w \in WheelsWritten /\ PrecisionHeld) => Abs(Cmd(w)) <= 152

\* all four commands stored from the extreme axes 512, -511, -511 in precision
\* mode: raw sums up to 1534 scaled down to the cap 152
C1_Witness ==
    /\ pcB = "dpad"
    /\ bt.raw_lx = 512 /\ bt.raw_ly = -511 /\ bt.raw_rx = -511
    /\ PrecisionHeld
    /\ bt.rawFL = 1534
    /\ m1_cmd = 152 /\ m2_cmd = -50

\* bit positions of each wheel's direction code in the byte
WheelBits(w) ==
    CASE w = 1 -> {2, 3}
      [] w = 2 -> {1, 4}
      [] w = 3 -> {5, 7}
      [] w = 4 -> {0, 6}

WheelAt(pc) ==
    CASE pc = "m1" -> 1
      [] pc = "m2" -> 2
      [] pc = "m3" -> 3
      [] pc = "m4" -> 4

\* C2: a call of setA (through setASigned) changes only wheel A's two bit
\* positions of motor_state; the bits of the other three wheels are kept.
C2_OtherWheelsKept ==
    [][(pcD \in {"m1", "m2", "m3", "m4"} /\ pcD' # pcD)
          => \A i \in (0..7) \ WheelBits(WheelAt(pcD)) :
                Bit(motor_state', i) = Bit(motor_state, i)]_vars

\* setM1Signed(-220) on the byte 0xFF: bits 2,3 now hold REV, the six other
\* bits are still set
C2_Witness ==
    /\ pcD = "m2"
    /\ m1_cmd = -220
    /\ motor_state = 251
    /\ duty[1] = 220

\* C5: an axis of magnitude below 200 enters the mixing as 0, one of magnitude
\* 200 or more keeps its magnitude; with all three axes below 200 the four
\* stored commands are 0.
C5_DeadZone ==
    pcB \in {"m1", "m2", "m3", "m4", "dpad"} =>
        /\ (Abs(bt.raw_lx) < 200 => bt.lx = 0)
        /\ (Abs(bt.raw_ly) < 200 => bt.ly = 0)
        /\ (Abs(bt.raw_rx) < 200 => bt.rx = 0)
        /\ (Abs(bt.raw_lx) >= 200 => Abs(bt.lx) = Abs(bt.raw_lx))
        /\ (Abs(bt.raw_ly) >= 200 => Abs(bt.ly) = Abs(bt.raw_ly))
        /\ (Abs(bt.raw_rx) >= 200 => Abs(bt.rx) = Abs(bt.raw_rx))
        /\ (pcB = "dpad" /\ Abs(bt.raw_lx) < 200 /\ Abs(bt.raw_ly) < 200
               /\ Abs(bt.raw_rx) < 200)
              => (m1_cmd = 0 /\ m2_cmd = 0 /\ m3_cmd = 0 /\ m4_cmd = 0)

\* one axis just inside the dead zone, two exactly on its edge
C5_Witness ==
    /\ pcB = "dpad"
    /\ bt.raw_lx = 199 /\ bt.raw_ly = -200 /\ bt.raw_rx = 200
    /\ bt.lx = 0 /\ bt.ly = 200 /\ bt.rx = -200
    /\ m1_cmd = 0 /\ m2_cmd = 220

\* C10: whenever the largest raw magnitude exceeds the cap, the largest stored
\* command magnitude equals the cap exactly (220, or 152 in precision mode).
C10_MaxEqualsCap ==
    LET cap == IF PrecisionHeld THEN 152 ELSE 220
        maxVal == Max2(Max2(Abs(bt.rawFL), Abs(bt.rawFR)),
                       Max2(Abs(bt.rawBL), Abs(bt.rawBR)))
    IN  (pcB = "dpad" /\ maxVal > cap) => MaxAbsCmd = cap

\* the signed command a wheel is driven with, read back from the direction
\* byte (M2 is wired reversed and stores the inverted code) and the PWM duty
StoredCode(w, ms) ==
    CASE w = 1 -> 2 * Bit(ms, 3) + Bit(ms, 2)
      [] w = 2 -> 2 * Bit(ms, 1) + Bit(ms, 4)
      [] w = 3 -> 2 * Bit(ms, 5) + Bit(ms, 7)
      [] w = 4 -> 2 * Bit(ms, 6) + Bit(ms, 0)

DrivenDir(w, ms) == IF w = 2 THEN 3 - StoredCode(w, ms) ELSE StoredCode(w, ms)

Driven(w, ms, dty) ==
    CASE DrivenDir(w, ms) = 1 -> dty[w]
      [] DrivenDir(w, ms) = 2 -> -dty[w]
      [] OTHER -> 0

DrivenSet == <<Driven(1, motor_state, duty), Driven(2, motor_state, duty),
               Driven(3, motor_state, duty), Driven(4, motor_state, duty)>>

\* the command sets bluetoothTask can store under Spec, and the boot values
WholeSets ==
    {<<0, 0, 0, 0>>} \cup
    {CommandSet(x, y, r, b) : x \in Centred, y \in Centred, r \in Rotate, b \in NoButtons}

\* C3: the four commands drivingTask applies in one tick were all stored by
\* one and the same update of bluetoothTask (or are the boot values).
C3_NoTornSet == pcD = "servo1a" => DrivenSet \in WholeSets

ProducerStore ==
    pcB \in {"m1", "m2", "m3", "m4", "servo", "throttle", "brake"} /\ pcB' # pcB

\* C4: a step that is not a store of bluetoothTask (a tick without a snapshot,
\* a connect or disconnect, any step of drivingTask) leaves the seven shared
\* command variables unchanged, and drivingTask drives each wheel with the
\* stored command, whatever the link does: nothing forces the commands to 0.
C4_HoldLastCommand ==
    [][/\ ~ProducerStore => UNCHANGED sharedVars
       /\ (pcD \in {"m1", "m2", "m3", "m4"} /\ pcD' # pcD)
             => Driven(WheelAt(pcD), motor_state', duty') = Cmd(WheelAt(pcD))]_vars

\* the controller is gone, bluetoothTask has finished a tick without snapshot,
\* the rotation command is still stored and drivingTask drives it
C4_Witness ==
    /\ linked = {}
    /\ pcB = "delay"
    /\ bt = BtIdle
    /\ <<m1_cmd, m2_cmd, m3_cmd, m4_cmd>> = <<-220, 220, -220, 220>>
    /\ pcD = "servo1a"
    /\ DrivenSet = <<-220, 220, -220, 220>>

IncOnly(dpad) == Bit(dpad, 0) = 1 /\ Bit(dpad, 1) = 0
DecOnly(dpad) == Bit(dpad, 1) = 1 /\ Bit(dpad, 0) = 0

\* C6: once servo_command is 1 it stays 1 until bluetoothTask processes a
\* snapshot with the decrease bit set and the increase bit clear, and every
\* drivingTask tick that reads it meanwhile writes 180 to servo 1.
C6_LatchMax ==
    [][/\ (servo_command = 1 /\ servo_command' # 1)
             => (pcB = "servo" /\ DecOnly(bt.dpad) /\ servo_command' = -1)
       /\ (pcD = "servo1a" /\ pcD' # pcD /\ servo_command = 1)
             => (servo1_out' = 180 /\ current_servo_angle' = 180)]_vars

\* latched at 180 and driven there, bluetoothTask has just processed a
\* snapshot without either bit
C6_Witness ==
    /\ servo_command = 1
    /\ pcB = "throttle" /\ bt.dpad = 0
    /\ servo1_out = 180
    /\ pcD = "servo1a"

\* C7: a snapshot with both the increase and the decrease bit set leaves
\* servo_command as it was.
C7_BothBitsKeep ==
    [][(pcB = "servo" /\ pcB' # pcB /\ Bit(bt.dpad, 0) = 1 /\ Bit(bt.dpad, 1) = 1)
          => servo_command' = servo_command]_vars

\* a snapshot with both bits has been processed while the command was -1
C7_Witness ==
    /\ pcB = "throttle" /\ bt.dpad = 3
    /\ servo_command = -1

\* C8 as stated: after N consecutive ticks since boot with the stored throttle
\* over the threshold, servo 2 is at min(180, 90 + 5 N); the same for brake
\* and max(0, 90 - 5 N).
C8_StepsThrottleOver ==
    /\ upRun >= 0 => servo2_angle = Min2(180, 90 + 5 * upRun)
    /\ downRun >= 0 => servo2_angle = Max2(0, 90 - 5 * downRun)

\* C8 amended: after N consecutive ticks since boot with the stored throttle
\* over the threshold and the stored brake not over it, servo 2 is at
\* min(180, 90 + 5 N); with brake over and throttle not over, max(0, 90 - 5 N).
C8_StepsOneTrigger ==
    /\ (upRun >= 0 /\ upPure) => servo2_angle = Min2(180, 90 + 5 * upRun)
    /\ (downRun >= 0 /\ downPure) => servo2_angle = Max2(0, 90 - 5 * downRun)

\* 19 throttle-only ticks since boot: the angle reached 180 after 18 and stays
C8_Witness ==
    /\ upRun = 19 /\ upPure
    /\ servo2_angle = 180 /\ servo2_out = 180

\* C9: a tick during whose servo-2 evaluation the stored throttle and brake
\* are both over the threshold, or both at or below it, leaves the servo-2
\* angle as it was.
C9_BothOrNeitherKeeps ==
    [][(pcD \in S2Window /\ pcD' = "delay"
          /\ (s2seen \subseteq {"both"} \/ s2seen \subseteq {"none"}))
          => (servo2_angle' = servo2_angle /\ servo2_out' = servo2_angle)]_vars

\* the first tick after boot had both triggers over the threshold throughout
C9_Witness ==
    /\ upRun = 1 /\ downRun = 1
    /\ pcD = "delay"
    /\ throttle_value = 101 /\ brake_value = 101
    /\ servo2_angle = 90

\* the cap of the snapshot in bt, and the raw sum of each wheel
CapHeld == IF PrecisionHeld THEN 152 ELSE 220

Raw(w) ==
    CASE w = 1 -> bt.rawFL
      [] w = 2 -> bt.rawFR
      [] w = 3 -> bt.rawBL
      [] w = 4 -> bt.rawBR

\* C11: whenever maxVal exceeds the cap, each stored command differs from the
\* exact value raw * cap / maxVal by less than 1, never has the opposite sign
\* of its raw sum, and wheels with equal raw sums get equal commands.
C11_RatioPreserved ==
    (pcB = "dpad" /\ bt.maxVal > CapHeld) =>
        \A w \in 1..4 :
            /\ Abs(Cmd(w) * bt.maxVal - Raw(w) * CapHeld) < bt.maxVal
            /\ Cmd(w) * Raw(w) >= 0
            /\ \A v \in 1..4 : Raw(v) = Raw(w) => Cmd(v) = Cmd(w)

\* C12: whenever maxVal is at most the cap, the four stored commands are the
\* raw mecanum sums of the filtered axes: FL = forward + strafe + rotate,
\* FR = forward - strafe - rotate, BL = forward - strafe + rotate,
\* BR = forward + strafe - rotate.
C12_PassThrough ==
    (pcB = "dpad"
       /\ MaxVal(bt.ly + bt.lx + bt.rx, bt.ly - bt.lx - bt.rx,
                 bt.ly - bt.lx + bt.rx, bt.ly + bt.lx - bt.rx) <= CapHeld) =>
        /\ m1_cmd = bt.ly + bt.lx + bt.rx
        /\ m2_cmd = bt.ly - bt.lx - bt.rx
        /\ m3_cmd = bt.ly - bt.lx + bt.rx
        /\ m4_cmd = bt.ly + bt.lx - bt.rx

\* rotation alone, exactly at the normal cap: stored unscaled
C12_Witness ==
    /\ pcB = "dpad"
    /\ bt.raw_lx = 0 /\ bt.raw_ly = 0 /\ bt.raw_rx = -220
    /\ ~PrecisionHeld
    /\ bt.maxVal = 220
    /\ <<m1_cmd, m2_cmd, m3_cmd, m4_cmd>> = <<220, -220, 220, -220>>

\* C13: with strafe and rotate 0 and forward = X, |X| at most the cap, all four
\* stored commands equal X (forward is the inverted Y axis after the dead
\* zone).
C13_ForwardOnly ==
    LET X == IF Abs(bt.raw_ly) < 200 THEN 0 ELSE -bt.raw_ly
    IN  (pcB = "dpad" /\ Abs(bt.raw_lx) < 200 /\ Abs(bt.raw_rx) < 200
           /\ Abs(X) <= CapHeld) =>
            (m1_cmd = X /\ m2_cmd = X /\ m3_cmd = X /\ m4_cmd = X)

\* stick pushed forward to Y = -220, the other axes inside the dead zone
C13_Witness ==
    /\ pcB = "dpad"
    /\ bt.raw_ly = -220 /\ bt.raw_lx = 199 /\ bt.raw_rx = -199
    /\ ~PrecisionHeld
    /\ m1_cmd = 220 /\ m2_cmd = 220 /\ m3_cmd = 220 /\ m4_cmd = 220

\* largest command magnitude the same axes give without the precision button
NormalMax ==
    LET c == CommandSet(bt.raw_lx, bt.raw_ly, bt.raw_rx, 0)
    IN  Max2(Max2(Abs(c[1]), Abs(c[2])), Max2(Abs(c[3]), Abs(c[4])))

\* C14: for the same axes the largest command magnitude with the precision
\* button is never greater than without it, and strictly smaller whenever
\* maxVal exceeds 152; PRECISION_SPEED is less than NORMAL_SPEED.
C14_PrecisionReduces ==
    /\ PRECISION_SPEED < NORMAL_SPEED
    /\ (pcB = "dpad" /\ PrecisionHeld) =>
          /\ MaxAbsCmd <= NormalMax
          /\ bt.maxVal > 152 => MaxAbsCmd < NormalMax

\* forward at Y = -200 with the precision button: 152 stored, 200 without it
C14_Witness ==
    /\ pcB = "dpad"
    /\ PrecisionHeld
    /\ bt.raw_lx = 0 /\ bt.raw_ly = -200 /\ bt.raw_rx = 0
    /\ MaxAbsCmd = 152
    /\ NormalMax = 200

\* the 2-bit code of a signed speed, inverted within the two bits for a wheel
\* whose reversal flag is set (M2 only)
CodeOf(w, v) ==
    LET c == IF v = 0 THEN 0 ELSE IF v > 0 THEN 1 ELSE 2
    IN  IF w = 2 THEN 3 - c ELSE c

\* C15: after setMxSigned(v) the wheel's bit pair holds OFF (00) for v = 0,
\* FWD (01) for v > 0 and REV (10) for v < 0, inverted within the two bits for
\* the reversed wheel M2.
C15_SignToCode ==
    [][(pcD \in {"m1", "m2", "m3", "m4"} /\ pcD' # pcD)
          => StoredCode(WheelAt(pcD), motor_state') = CodeOf(WheelAt(pcD), Cmd(WheelAt(pcD)))]_vars

\* from the byte 0xFF: M1 reversed (10), M2 stopped (inverted OFF = 11),
\* M3 forward (01), M4 reversed (10)
C15_Witness ==
    /\ pcD = "servo1a"
    /\ <<m1_cmd, m2_cmd, m3_cmd, m4_cmd>> = <<-220, 0, 220, -220>>
    /\ StoredCode(1, motor_state) = 2
    /\ StoredCode(2, motor_state) = 3
    /\ StoredCode(3, motor_state) = 1
    /\ StoredCode(4, motor_state) = 2
    /\ motor_state = 218

\* bluetoothTask is past the electromagnet block of the snapshot in bt
EmagDone == pcB \in {"servo", "throttle", "brake", "delay"} /\ dataUpdated

\* C16: once bluetoothTask has processed a snapshot with the engage bit (0x04)
\* the electromagnet is engaged (pin HIGH, duty 165); once it has processed
\* one with the disengage bit (0x08) and without the engage bit it is
\* disengaged (duty 0, pin LOW).
C16_EmagMapping ==
    EmagDone =>
        /\ Bit(bt.dpad, 2) = 1 => (emag_pin = 1 /\ emag_duty = 165)
        /\ (Bit(bt.dpad, 3) = 1 /\ Bit(bt.dpad, 2) = 0) => (emag_pin = 0 /\ emag_duty = 0)

\* a snapshot with both bits set has been processed: engaged
C16_Witness ==
    /\ pcB = "servo"
    /\ bt.dpad = 12
    /\ emag_pin = 1 /\ emag_duty = 165

\* C17: only the processing of a snapshot with the engage or the disengage bit
\* changes the electromagnet pin or duty: a snapshot with neither bit, a tick
\* without a snapshot, and every other step leave both as they were.
C17_EmagHeld ==
    [][(emag_pin' # emag_pin \/ emag_duty' # emag_duty)
          => /\ pcB \in {"dpad", "emag_on", "emag_off"}
             /\ (Bit(bt'.dpad, 2) = 1 \/ Bit(bt'.dpad, 3) = 1)]_vars

\* still engaged after a later snapshot with neither bit
C17_Witness ==
    /\ pcB = "servo"
    /\ bt.dpad = 0
    /\ dataUpdated
    /\ emag_pin = 1 /\ emag_duty = 165

\* bluetoothTask starts to process a snapshot
SnapshotTaken == pcB = "update" /\ pcB' = "m1"

\* C18: with two or more controllers linked, the slot processed by one tick of
\* bluetoothTask is the slot processed by its previous tick, as long as the
\* links did not change in between.
C18_StableSlot ==
    [][(SnapshotTaken /\ lastSlot # 0 /\ Cardinality(linked) >= 2)
          => bt'.i = lastSlot]_vars

\* slot j passes the test of the loop with the flags of this update
ReadyNow(j) == myControllers[j] # NULL /\ myControllers[j] \in linked /\ j \in hasData'

\* C19: a tick of bluetoothTask that updates the shared commands takes them
\* from one controller, the one in the lowest-indexed slot that is non-null,
\* connected and has data; all four commands it stores come from that
\* controller's data, and no other step stores a command.
C19_LowestReadySlot ==
    [][/\ SnapshotTaken =>
             /\ bt'.i \in Slots /\ ReadyNow(bt'.i)
             /\ \A j \in Slots : j < bt'.i => ~ReadyNow(j)
             /\ bt'.raw_rx = PadRX(myControllers[bt'.i])
       /\ (pcB \in {"m1", "m2", "m3", "m4"} /\ pcB' # pcB) =>
             \A w \in 1..4 :
                 Cmd(w)' = IF w = WheelAt(pcB)
                           THEN CommandSet(0, 0, PadRX(myControllers[bt.i]), 0)[w]
                           ELSE Cmd(w)
       /\ ~(pcB \in {"m1", "m2", "m3", "m4"} /\ pcB' # pcB) => UNCHANGED cmdVars]_vars

\* both controllers linked and with data: slot 1 was processed and its
\* rotation stored, the data of slot 2 was not used
C19_Witness ==
    /\ linked = {1, 2}
    /\ hasData = {1, 2}
    /\ myControllers[1] = 1 /\ myControllers[2] = 2
    /\ pcB = "dpad"
    /\ bt.i = 1
    /\ <<m1_cmd, m2_cmd, m3_cmd, m4_cmd>> = <<-220, 220, -220, 220>>

\* C20: drivingTask has an enabled step in every state, whatever bluetoothTask
\* has or has not done, and so has bluetoothTask (neither loop terminates);
\* with both tasks scheduled fairly each of them completes ticks again and
\* again.
C20_NeverBlocks ==
    /\ [](ENABLED <<ConsumerStep>>_vars)
    /\ [](ENABLED <<ProducerStep>>_vars)
    /\ []<><<DT_Delay>>_vars
    /\ []<><<BT_Delay>>_vars

\* drivingTask has driven wheel 1 with a command whose set bluetoothTask is
\* still storing
C20_Witness ==
    /\ pcB = "m3"
    /\ pcD = "delay"
    /\ m1_cmd = -220 /\ m3_cmd = 0
    /\ duty[1] = 220

(***************************************************************************)
(* Ownership of the actuators and of the shared variables.                 *)
(***************************************************************************)
AllActuators == {"m1", "m2", "m3", "m4", "servo1", "servo2", "emag"}

\* a step that completes a tick of drivingTask
TickEnds == pcD # "delay" /\ pcD' = "delay"

\* C21: every tick of drivingTask, whether or not bluetoothTask stored anything
\* new, drives all the actuators: the four wheel motors, servo 1, servo 2 and
\* the electromagnet.
C21_DrivesAllActuators == [][TickEnds => wrote' = AllActuators]_vars

\* a step of bluetoothTask
ProducerMoves == pcB' # pcB

\* a step of drivingTask
ConsumerMoves == pcD' # pcD

\* C22: the servo state (both angles and the last commanded direction of
\* servo 1) and the electromagnet state (pin and duty) are changed only by
\* drivingTask: no step of bluetoothTask changes any of them.
C22_ActuatorStateConsumerOnly ==
    [][ProducerMoves => UNCHANGED <<current_servo_angle, servo2_angle, servo_command,
                                    emag_pin, emag_duty>>]_vars

\* C23 as stated: the shared variables are written only by bluetoothTask and
\* read only by drivingTask: no step of drivingTask changes any of them and
\* bluetoothTask reads none of them.
C23_SharedOneWay ==
    [][/\ ConsumerMoves => UNCHANGED sharedVars
       /\ btReads' = {}]_vars

\* C23: no step of drivingTask changes a shared variable, and bluetoothTask
\* reads none of them except throttle_value and brake_value, which the
\* diagnostic line prints right after brake_value is stored.
C23_SharedOneWayButPrint ==
    [][/\ ConsumerMoves => UNCHANGED sharedVars
       /\ btReads' # btReads => /\ pcB = "brake"
                                /\ btReads' = {"throttle_value", "brake_value"}]_vars

\* bluetoothTask has printed the two trigger values and drivingTask has
\* completed a tick that acted on a stored servo command, which is still there
C23_Witness ==
    /\ btReads = {"throttle_value", "brake_value"}
    /\ pcD = "delay"
    /\ servo_command = 1
    /\ servo1_out = 180

(***************************************************************************)
(* Direction byte and duties within a tick of drivingTask.                 *)
(***************************************************************************)
\* the set step of wheel w
SetsWheel(w) == pcD \in {"m1", "m2", "m3", "m4"} /\ WheelAt(pcD) = w /\ ConsumerMoves

\* the bit pair and the duty of wheel w fit one value
OneValue(w) ==
    \E v \in {duty[w], -duty[w]} : StoredCode(w, motor_state) = CodeOf(w, v)

\* C24: the set step of wheel i reads its command v_i once and leaves both the
\* wheel's 2-bit code (sign of v_i, reversal applied) and its duty (|v_i|) at
\* that value; no other step changes them, so at the end of every tick of
\* drivingTask code and duty of each wheel fit one and the same value, also
\* when bluetoothTask stores other commands meanwhile; the byte sent to the
\* shift register always equals motor_state.
C24_CodeAndDutyOneValue ==
    /\ [][\A w \in 1..4 :
            IF SetsWheel(w)
            THEN /\ StoredCode(w, motor_state') = CodeOf(w, Cmd(w))
                 /\ duty'[w] = Abs(Cmd(w))
            ELSE /\ StoredCode(w, motor_state') = StoredCode(w, motor_state)
                 /\ duty'[w] = duty[w]]_vars
    /\ [](pcD = "delay" => \A w \in 1..4 : OneValue(w))
    /\ [](sr_out = motor_state)

\* a tick of drivingTask ended with wheel 1 in reverse at duty 220 and wheel 2
\* stopped, while bluetoothTask has since stored 0 for wheel 1 and 220 for
\* wheel 2
C24_Witness ==
    /\ pcD = "delay"
    /\ duty = [w \in 1..4 |-> IF w \in {1, 3} THEN 220 ELSE 0]
    /\ StoredCode(1, motor_state) = REV
    /\ StoredCode(2, motor_state) = 3
    /\ StoredCode(3, motor_state) = REV
    /\ m1_cmd = 0 /\ m2_cmd = 220
    /\ sr_out = motor_state

(***************************************************************************)
(* Servo 1: boot angle, response to a stored command, range.               *)
(***************************************************************************)
\* the step of drivingTask that writes servo 1 (line 439)
WritesServo1 ==
    /\ ConsumerMoves
    /\ \/ pcD = "servo1a" /\ pcD' # "servo1b"
       \/ pcD = "servo1b"

ServoTransitions ==
    (pcB = "servo" /\ ProducerMoves)
       => /\ IncOnly(bt.dpad) => servo_command' = 1
          /\ DecOnly(bt.dpad) => servo_command' = -1

\* the angle a stored command asks for
TargetOf(cmd) == IF cmd = 1 THEN 180 ELSE 0

\* C26 as stated: a snapshot with only the increase bit stores 1, one with
\* only the decrease bit stores -1, and the first tick of drivingTask that
\* starts after the new command was stored writes 180 (respectively 0) to
\* servo 1.
C26_FirstTickResponds ==
    [][/\ ServoTransitions
       /\ (WritesServo1 /\ s1First /\ s1AtStart # 0)
             => servo1_out' = TargetOf(s1AtStart)]_vars

\* C26: the same transitions, and a tick of drivingTask that starts after the
\* new command was stored writes 180 (respectively 0) to servo 1 provided
\* bluetoothTask has not stored another command before the tick wrote the
\* servo.
C26_TickRespondsIfStable ==
    [][/\ ServoTransitions
       /\ (WritesServo1 /\ s1AtStart # 0 /\ s1Stable)
             => servo1_out' = TargetOf(s1AtStart)]_vars

\* servo 1 was at 180; the first tick that started after -1 was stored has
\* moved it to 0
C26_Witness ==
    /\ pcD = "s2_t1"
    /\ s1First /\ s1Stable
    /\ s1AtStart = -1
    /\ servo1_out = 0
    /\ bt.dpad = 2

(***************************************************************************)
(* Range of the two servo angles.                                          *)
(***************************************************************************)
\* both servos: both tasks, the user drives both servos up (D-pad increase
\* with the throttle over the threshold) or both down (D-pad decrease with the
\* brake over the threshold)
DpadEnds == {1, 2}
TriggerWith(dpad) == IF dpad = 1 THEN <<101, 100>> ELSE <<100, 101>>
OneTrigger == {TriggerWith(d) : d \in DpadEnds}

\* setup has run and one controller has connected and sits in the first slot
InitLinked ==
    /\ myControllers = [i \in Slots |-> IF i = 1 THEN 1 ELSE NULL]
    /\ linked = {1}
    /\ hasData = {}
    /\ pcB = "update"
    /\ dataUpdated = FALSE
    /\ bt = BtIdle
    /\ BootShared
    /\ BootActuators
    /\ BootHist
    /\ BootDash
    /\ pcD = "m1"
    /\ motor_state = 0
    /\ sr_out = 0

NextAngles ==
    \/ BT_UpdateSnapshot(Centred, Centred, Centred, NoButtons)
    \/ WheelWrites
    \/ BT_Dpad(DpadEnds) \/ BT_Servo
    \/ BT_Throttle({TriggerWith(bt.dpad)[1]}) \/ BT_BrakeOf(OneTrigger)
    \/ BT_Delay
    \/ WheelSets
    \/ DT_Servo1a \/ DT_Servo1b
    \/ DT_S2_T1 \/ DT_S2_B1 \/ DT_S2_B2 \/ DT_S2_T2
    \/ DT_Delay

SpecAngles == InitLinked /\ [][NextAngles]_vars

\* C27: in every reachable state both servo angles lie in 0..180: servo 2
\* never steps above 180 or below 0 whatever the throttle and brake values
\* were, and servo 1 is only ever 0 or 180; the same for the angles written to
\* the servos.
C27_AnglesInRange ==
    /\ servo2_angle \in 0..180
    /\ servo2_out \in 0..180
    /\ current_servo_angle \in {0, 180}
    /\ servo1_out \in {0, 180}

\* servo 2 is held at the upper limit by a further step up while servo 1 is at
\* its upper end
C27_Witness ==
    /\ pcD = "delay"
    /\ servo2_angle = 180
    /\ upRun = MaxRun
    /\ current_servo_angle = 180

(***************************************************************************)
(* Connection attempts with a full controller table.                       *)
(***************************************************************************)
\* one controller more than the table has slots; each turns the robot at a
\* speed of its own, past the dead zone and below the cap
ExtraPads == 1..(MaxGamepads + 1)
ExtraRX(c) == DEADZONE + c
ExtraData == [c \in ExtraPads |-> {<<0, 0, ExtraRX(c), 0>>}]

\* bluetoothTask alone, the controllers connect and disconnect in any order
NextFull ==
    \/ Link(ExtraPads)
    \/ BT_UpdateFirstReady(ExtraData)
    \/ BT_UpdateNone
    \/ WheelWrites
    \/ BT_Dpad(AtRest) \/ BT_Servo \/ BT_Throttle(AtRest) \/ BT_Brake(AtRest)
    \/ BT_Delay

SpecFull == Init /\ [][NextFull]_vars

InTable(c) == \E i \in Slots : myControllers[i] = c

TableFull == \A i \in Slots : myControllers[i] # NULL

\* connected controllers that have no slot
Dropped == {c \in linked : ~InTable(c)}

\* C28: when a controller connects while every slot of myControllers is
\* occupied the table is left unchanged; as long as it stays connected the
\* controller is not placed in a slot later, also when a slot becomes free;
\* and no command bluetoothTask stores comes from its data.
C28_FullTableDrops ==
    [][/\ (linked' \ linked # {} /\ TableFull) => myControllers' = myControllers
       /\ \A c \in Dropped : c \in linked' => ~InTable(c)'
       /\ \A w \in 1..4 :
             (pcB \in {"m1", "m2", "m3", "m4"} /\ WheelAt(pcB) = w /\ ProducerMoves)
                => \A c \in Dropped : Cmd(w)' # CommandSet(0, 0, ExtraRX(c), 0)[w]]_vars

\* a controller was dropped, a slot has become free since and the dropped
\* controller is still without a slot; the commands stored are those of the
\* controller left in the table
C28_Witness ==
    /\ Dropped # {}
    /\ ~TableFull
    /\ pcB = "dpad"
    /\ bt.i \in Slots
    /\ myControllers[bt.i] # NULL
    /\ <<m1_cmd, m2_cmd, m3_cmd, m4_cmd>> = CommandSet(0, 0, ExtraRX(myControllers[bt.i]), 0)
    /\ m1_cmd # 0

(***************************************************************************)
(* Electromagnet: what the outcome of a snapshot depends on.               *)
(***************************************************************************)
Commands(dpad) == And8(dpad, DPAD_ENGAGE) # 0 \/ And8(dpad, DPAD_DISENGAGE) # 0

\* C29 as stated: after bluetoothTask has processed a snapshot the state of
\* the electromagnet is determined by the D-pad value of that snapshot alone:
\* the same D-pad value never ends in two different states.
C29_DpadAlone == \A a, b \in emagSeen : a[1] = b[1] => a = b

\* C29: for a snapshot whose D-pad value has the engage or the disengage bit
\* set, the state of the electromagnet after bluetoothTask has processed it is
\* determined by that D-pad value alone, whatever the state was before; a
\* snapshot with neither bit leaves the electromagnet in the state it had.
C29_DpadAloneWhenCommanded ==
    /\ [](\A a, b \in emagSeen : (a[1] = b[1] /\ Commands(a[1])) => a = b)
    /\ [][(pcB = "dpad" /\ ProducerMoves /\ ~Commands(bt'.dpad))
             => (pcB' = "servo" /\ UNCHANGED emagVars)]_vars

\* engage and disengage snapshots have each ended in one state, snapshots with
\* neither bit have ended in both
C29_Witness ==
    /\ <<DPAD_ENGAGE, HIGH, EMAG_PWM_DUTY>> \in emagSeen
    /\ <<DPAD_DISENGAGE, LOW, 0>> \in emagSeen
    /\ <<0, LOW, 0>> \in emagSeen
    /\ <<0, HIGH, EMAG_PWM_DUTY>> \in emagSeen
    /\ \E e \in emagSeen : e[1] = Or8(DPAD_ENGAGE, DPAD_DISENGAGE)

(***************************************************************************)
(* Servo 2 and the two separate stores of throttle_value and brake_value.  *)
(***************************************************************************)
\* exactly one of the two triggers of <<throttle, brake>> is over the threshold
OneOver(pr) == Pressed(pr[1]) # Pressed(pr[2])

\* the user holds both triggers or neither
BothOrNeither == {<<101, 101>>, <<100, 100>>}

NextTorn ==
    \/ BT_UpdateSnapshot(Centred, Centred, Centred, NoButtons)
    \/ BT_UpdateNone
    \/ WheelWrites
    \/ BT_Dpad(AtRest) \/ BT_Servo
    \/ BT_Throttle({pr[1] : pr \in BothOrNeither}) \/ BT_BrakeOf(BothOrNeither)
    \/ BT_Delay
    \/ WheelSets
    \/ DT_Servo1a \/ DT_Servo1b
    \/ DT_S2_T1 \/ DT_S2_B1 \/ DT_S2_B2 \/ DT_S2_T2
    \/ DT_Delay

SpecTorn == InitLinked /\ [][NextTorn]_vars

\* C30: a tick of drivingTask steps servo 2 down (up) only if some single
\* snapshot had the brake (throttle) over the threshold and the throttle
\* (brake) not over it; so while every snapshot has both triggers over the
\* threshold or neither, as the boot values have, servo 2 stays at its boot
\* angle under every interleaving of the two stores with the two reads.
C30_NoStepWithoutOneTrigger ==
    (\A pr \in BothOrNeither \cup {<<0, 0>>} : ~OneOver(pr))
       => (servo2_angle = 90 /\ servo2_out = 90)

(***************************************************************************)
(* Electromagnet: order of the two hardware writes.                        *)
(***************************************************************************)
\* C31: in every state, also between the two hardware writes of an engage or
\* of a disengage, the electromagnet is never at pin LOW with a non-zero duty:
\* engage asserts the pin before it raises the duty, disengage zeroes the duty
\* before it deasserts the pin, and boot leaves pin LOW and duty 0.
C31_NeverLowWithDuty == ~(emag_pin = LOW /\ emag_duty # 0)

\* between the two writes of a disengage that follows an engage: duty already
\* 0, pin still HIGH
C31_Witness ==
    /\ pcB = "emag_off"
    /\ emag_pin = HIGH
    /\ emag_duty = 0
    /\ <<DPAD_ENGAGE, HIGH, EMAG_PWM_DUTY>> \in emagSeen

(***************************************************************************)
(* motor_state has one reader and writer.                                  *)
(***************************************************************************)
\* C32: once the tasks run, motor_state is changed by the set steps of
\* drivingTask only: no step of bluetoothTask or of a Bluepad32 callback
\* changes it or the byte in the shift register, each set step leaves the
\* code of its own wheel in the byte and keeps the codes of the other three,
\* so no wheel's direction update is lost.
C32_MotorStateOneWriter ==
    [][/\ ~ConsumerMoves => UNCHANGED <<motor_state, sr_out>>
       /\ <<motor_state, sr_out>>' # <<motor_state, sr_out>>
             => \E w \in 1..4 : SetsWheel(w)
       /\ \A w \in 1..4 :
             SetsWheel(w) =>
                /\ StoredCode(w, motor_state') = CodeOf(w, Cmd(w))
                /\ \A x \in 1..4 \ {w} :
                      StoredCode(x, motor_state') = StoredCode(x, motor_state)]_vars

\* drivingTask is between the set steps of wheels 2 and 3 of a tick in which
\* both wheels set so far turn, and bluetoothTask has meanwhile stored the
\* four commands of a snapshot at rest: the byte still holds what drivingTask
\* set
C32_Witness ==
    /\ pcD = "m3"
    /\ pcB = "dpad"
    /\ <<m1_cmd, m2_cmd, m3_cmd, m4_cmd>> = <<0, 0, 0, 0>>
    /\ StoredCode(1, motor_state) = REV
    /\ StoredCode(2, motor_state) = REV
    /\ duty[1] = 220 /\ duty[2] = 220

(***************************************************************************)
(* PWM duties of the wheel channels.                                       *)
(***************************************************************************)
\* mixer and driver together: bluetoothTask has taken a snapshot with axes at
\* the edge of the dead zone, around the cap or at the ends of the axis range
\* and stores its four commands while drivingTask sets the four wheels
DutyAxes == {-511, -221, 200, 220, 268, 512}

InitDuty ==
    /\ myControllers = [i \in Slots |-> IF i = 1 THEN 1 ELSE NULL]
    /\ linked = {1}
    /\ hasData = {1}
    /\ pcB = "m1"
    /\ dataUpdated = TRUE
    /\ \E raw_lx \in DutyAxes, raw_ly \in DutyAxes, raw_rx \in DutyAxes,
          buttons \in MixButtons :
          bt = [MixLocals(raw_lx, raw_ly, raw_rx, buttons) EXCEPT !.i = 1]
    /\ BootShared
    /\ BootActuators
    /\ BootHist
    /\ BootDash
    /\ pcD = "m1"
    /\ motor_state = 0
    /\ sr_out = 0

NextDuty == WheelWrites \/ WheelSets

SpecDuty == InitDuty /\ [][NextDuty]_vars

\* C33: every duty written to a wheel channel equals the magnitude of the
\* command read for that wheel and lies in 0..220, so the cast of abs(value)
\* to uint8_t never wraps, whatever mix of old and new commands drivingTask
\* reads.
C33_DutyIsMagnitude ==
    /\ [][\A w \in 1..4 :
            SetsWheel(w) => /\ duty'[w] = Abs(Cmd(w))
                            /\ Abs(Cmd(w)) <= 220]_vars
    /\ [](\A w \in 1..4 : duty[w] \in 0..220)

\* the sticks are at full deflection and all four wheels have been set, wheel
\* 1 with the boot command and wheel 4 with the scaled one
C33_Witness ==
    /\ pcD = "servo1a"
    /\ bt.maxVal > 255
    /\ duty[1] = 0
    /\ duty[4] > 200
    /\ duty[4] = Abs(m4_cmd)

(***************************************************************************)
(* Direction byte at rest.                                                 *)
(***************************************************************************)
\* C34: when all four commands are zero the byte after the four set steps of
\* a tick is not 0x00 but 0b00010010: the reversed motor M2 holds the inverted
\* OFF code 11 in bits 1 and 4, M1, M3 and M4 hold 00; a zero command on
\* the reversed motor never leaves code 00.
C34_RestByte ==
    /\ [][(SetsWheel(2) /\ m2_cmd = 0)
             => (StoredCode(2, motor_state') = 3 /\ Bit(motor_state', 1) = 1
                 /\ Bit(motor_state', 4) = 1)]_vars
    /\ []((pcD = "servo1a" /\ \A w \in 1..4 : Cmd(w) = 0)
             => /\ motor_state = 18
                /\ sr_out = 18
                /\ \A w \in {1, 3, 4} : StoredCode(w, motor_state) = OFF)

\* the four wheels have been set with zero commands: byte 0b00010010, all
\* duties 0
C34_Witness ==
    /\ pcD = "servo1a"
    /\ <<m1_cmd, m2_cmd, m3_cmd, m4_cmd>> = <<0, 0, 0, 0>>
    /\ motor_state = 18
    /\ duty = [w \in 1..4 |-> 0]

(***************************************************************************)
(* Electromagnet: engage and disengage bits together.                      *)
(***************************************************************************)
\* C35: a snapshot whose D-pad has both the engage bit and the disengage bit
\* engages the electromagnet, as every snapshot with the engage bit does; the
\* duty is zeroed and the pin deasserted only for a snapshot with the
\* disengage bit set and the engage bit clear.
C35_EngageFirst ==
    /\ [](\A e \in emagSeen :
             And8(e[1], DPAD_ENGAGE) # 0 => (e[2] = HIGH /\ e[3] = EMAG_PWM_DUTY))
    /\ [][((emag_duty' = 0 /\ emag_duty # 0) \/ (emag_pin' = LOW /\ emag_pin # LOW))
             => /\ And8(bt'.dpad, DPAD_DISENGAGE) # 0
                /\ And8(bt'.dpad, DPAD_ENGAGE) = 0]_vars

\* the electromagnet was off and a snapshot with both bits has engaged it
C35_Witness ==
    /\ pcB = "servo"
    /\ bt.dpad = Or8(DPAD_ENGAGE, DPAD_DISENGAGE)
    /\ emag_pin = HIGH /\ emag_duty = EMAG_PWM_DUTY
    /\ <<DPAD_DISENGAGE, LOW, 0>> \in emagSeen
    /\ <<DPAD_ENGAGE, HIGH, EMAG_PWM_DUTY>> \notin emagSeen

(***************************************************************************)
(* Servo 1 after the first latch.                                          *)
(***************************************************************************)
\* C36: servo_command never returns to 0: once it is 1 or -1 it stays in
\* {1, -1}; the angle of servo 1 is 0 or 180 in every state; and once the
\* command has latched, the angle written by a tick of drivingTask that started
\* after the latch is the one servo_command stands for, 180 for 1 and 0 for
\* -1.
C36_LatchedCommandDecides ==
    [][/\ servo_command # 0 => servo_command' \in {1, -1}
       /\ current_servo_angle' \in {0, 180}
       /\ (WritesServo1 /\ s1AtStart # 0)
             => servo1_out' = TargetOf(servo_command)]_vars

(***************************************************************************)
(* Servo 2 after the link is lost.                                         *)
(***************************************************************************)
\* the connected controller holds one trigger or the other, the link may drop
\* at any time and does not come back; drivingTask keeps running on its core
NextDrift ==
    \/ BP_Disconnect(OnePad)
    \/ BT_UpdateSnapshot(Centred, Centred, Centred, NoButtons)
    \/ BT_UpdateNone
    \/ WheelWrites
    \/ BT_Dpad(AtRest) \/ BT_Servo
    \/ BT_Throttle(TrigVals) \/ BT_BrakeOf(OneTrigger)
    \/ BT_Delay
    \/ WheelSets
    \/ DT_Servo1a \/ DT_Servo1b
    \/ DT_S2_T1 \/ DT_S2_B1 \/ DT_S2_B2 \/ DT_S2_T2
    \/ DT_Delay

ConsumerStepDrift ==
    \/ WheelSets
    \/ DT_Servo1a \/ DT_Servo1b
    \/ DT_S2_T1 \/ DT_S2_B1 \/ DT_S2_B2 \/ DT_S2_T2
    \/ DT_Delay

SpecDrift == InitLinked /\ [][NextDrift]_vars /\ WF_vars(ConsumerStepDrift)

ThrottleOnly == Pressed(throttle_value) /\ Released(brake_value)

BrakeOnly == Pressed(brake_value) /\ Released(throttle_value)

\* C37: if the last pair stored before the link drops has the throttle over
\* the threshold and the brake not over it, then with no further snapshot
\* drivingTask keeps stepping and servo 2 reaches 180 and stays there for
\* ever; with the brake over and the throttle not, it reaches 0 and stays; it
\* does not stop at the angle it had when the link dropped.
C37_DriftsToLimit ==
    /\ <>[](linked = {} /\ ThrottleOnly) => <>[](servo2_angle = 180)
    /\ <>[](linked = {} /\ BrakeOnly) => <>[](servo2_angle = 0)

\* the link is gone, the throttle of the last snapshot is still stored and
\* servo 2 has been driven to the upper limit
C37_Witness ==
    /\ linked = {}
    /\ pcB = "update"
    /\ ThrottleOnly
    /\ pcD = "delay"
    /\ servo2_angle = 180
    /\ servo2_out = 180

(***************************************************************************)
(* The controller table under connects and disconnects.                    *)
(***************************************************************************)
EmptySlots == {i \in Slots : myControllers[i] = NULL}

\* C38: with each controller connected at most once before it is
\* disconnected, no controller occupies two slots; a connect fills the
\* lowest empty slot and changes no other slot; a disconnect clears exactly
\* the slot that holds the controller and changes no other slot, and the
\* disconnect of a controller that has no slot changes nothing.
C38_SlotTable ==
    /\ [](\A i, j \in Slots :
             (i # j /\ myControllers[i] = myControllers[j]) => myControllers[i] = NULL)
    /\ [][\A c \in ExtraPads :
            /\ (c \in linked' \ linked /\ EmptySlots # {}) =>
                  /\ myControllers'[FirstSlot(EmptySlots)] = c
                  /\ \A i \in Slots \ {FirstSlot(EmptySlots)} :
                        myControllers'[i] = myControllers[i]
            /\ (c \in linked \ linked' /\ InTable(c)) =>
                  \A i \in Slots :
                     myControllers'[i] = IF myControllers[i] = c THEN NULL
                                         ELSE myControllers[i]
            /\ (c \in linked \ linked' /\ ~InTable(c)) =>
                  myControllers' = myControllers]_vars

\* controller 1 has left and the slot it freed, the lowest, has gone to the
\* controller that connected next while controller 2 kept its slot
C38_Witness ==
    /\ myControllers[1] = MaxGamepads + 1
    /\ myControllers[2] = 2
    /\ 1 \notin linked

(***************************************************************************)
(* Dashboard backend: the WebSocket server of robot-dashboard.  Node runs   *)
(* one handler at a time, so each handler is one action.  The handlers of   *)
(* 'auth', 'input' and 'execute_command' touch only the SSH connections,    *)
(* which no property below concerns; they are the action OtherMessage.      *)
(***************************************************************************)
ClientKinds == {"dashboard", "pi", "other"}

OtherTypes == {"auth", "input", "execute_command", "unknown"}

\* dashboards an iteration over dashboardSockets finds OPEN
OpenDashboards == {dashWS \in dashboardSockets : readyState[dashWS] = "OPEN"}

\* wss.on('connection'): a new socket object, in no Map
Connection(ws) ==
    /\ readyState[ws] = "CLOSED"
    /\ readyState' = [readyState EXCEPT ![ws] = "OPEN"]
    /\ handled' = Event("connection", ws, {}, {})
    /\ UNCHANGED <<dashboardSockets, piClientSockets, recVars, sessionDirs>>
    /\ UNCHANGED fwVars

\* the peer starts closing: the socket stops delivering messages and is no
\* longer OPEN, but its close event has not been emitted yet
Closing(ws) ==
    /\ readyState[ws] = "OPEN"
    /\ readyState' = [readyState EXCEPT ![ws] = "CLOSING"]
    /\ handled' = Event("closing", ws, {}, {})
    /\ UNCHANGED <<dashboardSockets, piClientSockets, recVars, sessionDirs>>
    /\ UNCHANGED fwVars

\* ws.on('close')
OnClose(ws) ==
    /\ readyState[ws] # "CLOSED"
    /\ readyState' = [readyState EXCEPT ![ws] = "CLOSED"]
    /\ dashboardSockets' = dashboardSockets \ {ws}
    /\ piClientSockets' = piClientSockets \ {ws}
    /\ handled' = Event("close", ws, {}, {})
    /\ UNCHANGED <<recVars, sessionDirs>>
    /\ UNCHANGED fwVars

\* ws.on('error'): the same cleanup, then ws.terminate() unless already closing
OnError(ws) ==
    /\ readyState[ws] # "CLOSED"
    /\ dashboardSockets' = dashboardSockets \ {ws}
    /\ piClientSockets' = piClientSockets \ {ws}
    /\ readyState' = [readyState EXCEPT ![ws] = "CLOSING"]
    /\ handled' = Event("error", ws, {}, {})
    /\ UNCHANGED <<recVars, sessionDirs>>
    /\ UNCHANGED fwVars

\* a register that leaves the socket in the other Map
RegisterKeepsOther(ws, client) ==
    /\ readyState[ws] = "OPEN"
    /\ CASE client = "dashboard" ->
              /\ dashboardSockets' = dashboardSockets \cup {ws}
              /\ UNCHANGED piClientSockets
         [] client = "pi" ->
              /\ piClientSockets' = piClientSockets \cup {ws}
              /\ UNCHANGED dashboardSockets
         [] OTHER -> UNCHANGED <<dashboardSockets, piClientSockets>>
    /\ handled' = Event("register", ws, {}, {})
    /\ UNCHANGED <<readyState, recVars, sessionDirs>>
    /\ UNCHANGED fwVars

\* data.type === 'register'
Register(ws, client) ==
    /\ readyState[ws] = "OPEN"
    /\ CASE client = "dashboard" ->
              /\ piClientSockets' = piClientSockets \ {ws}
              /\ dashboardSockets' = dashboardSockets \cup {ws}
         [] client = "pi" ->
              /\ dashboardSockets' = dashboardSockets \ {ws}
              /\ piClientSockets' = piClientSockets \cup {ws}
         [] OTHER -> UNCHANGED <<dashboardSockets, piClientSockets>>
    /\ handled' = Event("register", ws, {}, {})
    /\ UNCHANGED <<readyState, recVars, sessionDirs>>
    /\ UNCHANGED fwVars

\* data.type === 'frame'.  written is FALSE when building the buffer or
\* fs.writeFileSync throws: the handler's catch ends the frame there, before
\* frameCounter++ and before the broadcast.  The broadcast drops every
\* dashboard it finds not OPEN.
Frame(ws) ==
    /\ readyState[ws] = "OPEN"
    /\ IF ws \notin piClientSockets
       THEN /\ handled' = Event("frame", ws, {}, {})
            /\ UNCHANGED <<dashboardSockets, frameCounter>>
       ELSE IF recordingState = "on" /\ currentSessionDir # null
       THEN /\ frameCounter < MaxFrames
            /\ \E written \in BOOLEAN :
                 IF written
                 THEN /\ frameCounter' = frameCounter + 1
                      /\ dashboardSockets' = OpenDashboards
                      /\ handled' = Event("frame", ws, {<<currentSessionDir, frameCounter>>},
                                          OpenDashboards)
                 ELSE /\ handled' = Event("frame", ws, {}, {})
                      /\ UNCHANGED <<dashboardSockets, frameCounter>>
       ELSE /\ dashboardSockets' = OpenDashboards
            /\ handled' = Event("frame", ws, {}, OpenDashboards)
            /\ UNCHANGED frameCounter
    /\ UNCHANGED <<readyState, piClientSockets, recordingState, currentSessionDir,
                   sessionDirs>>
    /\ UNCHANGED fwVars

\* case 'record'.  currentSessionDir is assigned before fs.mkdirSync; made is
\* FALSE when mkdirSync throws, and the catch resets currentSessionDir only.
Record(ws) ==
    /\ readyState[ws] = "OPEN"
    /\ IF recordingState # "on"
       THEN /\ sessionDirs < MaxSessions
            /\ \E made \in BOOLEAN :
                 IF made
                 THEN /\ sessionDirs' = sessionDirs + 1
                      /\ currentSessionDir' = sessionDirs + 1
                      /\ frameCounter' = 0
                      /\ recordingState' = "on"
                 ELSE /\ currentSessionDir' = null
                      /\ UNCHANGED <<sessionDirs, frameCounter, recordingState>>
       ELSE UNCHANGED <<recVars, sessionDirs>>
    /\ handled' = Event("record", ws, {}, {})
    /\ UNCHANGED <<readyState, dashboardSockets, piClientSockets>>
    /\ UNCHANGED fwVars

\* case 'pause'
Pause(ws) ==
    /\ readyState[ws] = "OPEN"
    /\ recordingState' = IF recordingState = "on" THEN "paused" ELSE recordingState
    /\ handled' = Event("pause", ws, {}, {})
    /\ UNCHANGED <<readyState, dashboardSockets, piClientSockets, currentSessionDir,
                   frameCounter, sessionDirs>>
    /\ UNCHANGED fwVars

\* case 'resume'
Resume(ws) ==
    /\ readyState[ws] = "OPEN"
    /\ recordingState' = IF recordingState = "paused" THEN "on" ELSE recordingState
    /\ handled' = Event("resume", ws, {}, {})
    /\ UNCHANGED <<readyState, dashboardSockets, piClientSockets, currentSessionDir,
                   frameCounter, sessionDirs>>
    /\ UNCHANGED fwVars

\* case 'stop'
Stop(ws) ==
    /\ readyState[ws] = "OPEN"
    /\ IF recordingState # "off"
       THEN /\ recordingState' = "off"
            /\ currentSessionDir' = null
            /\ frameCounter' = 0
       ELSE UNCHANGED recVars
    /\ handled' = Event("stop", ws, {}, {})
    /\ UNCHANGED <<readyState, dashboardSockets, piClientSockets, sessionDirs>>
    /\ UNCHANGED fwVars

\* every other message type
OtherMessage(ws, type) ==
    /\ readyState[ws] = "OPEN"
    /\ handled' = Event(type, ws, {}, {})
    /\ UNCHANGED <<readyState, dashboardSockets, piClientSockets, recVars,
                   sessionDirs>>
    /\ UNCHANGED fwVars

NextDash ==
    \/ \E ws \in Sockets : Connection(ws)
    \/ \E ws \in Sockets : Closing(ws)
    \/ \E ws \in Sockets : OnClose(ws)
    \/ \E ws \in Sockets : OnError(ws)
    \/ \E ws \in Sockets, client \in ClientKinds : Register(ws, client)
    \/ \E ws \in Sockets : Frame(ws)
    \/ \E ws \in Sockets : Record(ws)
    \/ \E ws \in Sockets : Pause(ws)
    \/ \E ws \in Sockets : Resume(ws)
    \/ \E ws \in Sockets : Stop(ws)
    \/ \E ws \in Sockets, type \in OtherTypes : OtherMessage(ws, type)

SpecDash == Init /\ [][NextDash]_vars

\* the step is the handling of a message of this type
Handles(type) == handled'.type = type

Saves == handled'.saved # {} /\ handled' # handled

(***************************************************************************)
(* C40: frame handling of the dashboard backend.  A 'frame' message from a *)
(* socket that is not registered as a Pi client is neither saved nor       *)
(* broadcast and changes no state.  A frame from a registered Pi client is *)
(* written to disk only while recordingState is "on", each saved frame     *)
(* advances frameCounter by exactly one, and no socket is registered as    *)
(* dashboard and as Pi client at once.                                     *)
(***************************************************************************)
C40_FramesFromPiOnly ==
    /\ [](dashboardSockets \cap piClientSockets = {})
    /\ [][/\ Handles("frame") /\ handled'.ws \notin piClientSockets =>
                /\ handled'.saved = {}
                /\ handled'.frameTo = {}
                /\ UNCHANGED <<readyState, dashboardSockets, piClientSockets, recVars,
                               sessionDirs>>
          /\ Saves =>
                /\ Handles("frame")
                /\ handled'.ws \in piClientSockets
                /\ recordingState = "on"
                /\ handled'.saved = {<<currentSessionDir, frameCounter>>}
                /\ frameCounter' = frameCounter + 1
          /\ Handles("frame") /\ frameCounter' # frameCounter => Saves
         ]_vars

\* the first frame of a session, sent by a registered Pi client while
\* recording, was saved and broadcast to a dashboard
C40_Witness ==
    /\ handled.type = "frame"
    /\ handled.ws \in piClientSockets
    /\ handled.frameTo # {}
    /\ frameCounter = 1
    /\ handled.saved = {<<currentSessionDir, 0>>}
    /\ recordingState = "on"

==========================================================================
